---- MODULE Spec2Model ----
(***************************************************************************)
(* Kobafin: escrow transaction verification (backend API), the escrow      *)
(* instruction codec, and the policy governance clamp.                     *)
(*                                                                         *)
(* JavaScript numbers are modelled as exact rationals n/d (d > 0, reduced) *)
(* together with the non-finite values NaN, +Infinity, -Infinity and the   *)
(* value undefined; binary rounding of doubles is not modelled.            *)
(***************************************************************************)
EXTENDS Integers, Sequences, FiniteSets, TLC

VARIABLES
    proposal,     \* policy clamp: the AgentProposal handed to applyPolicyClamp
    clamped,      \* policy clamp: the ClampedPolicy returned, or NoPolicy
    codecIn,      \* codec: the operation encoded by buildEscrowTx's layout
    codecRaw,     \* codec: the instruction bytes, or <<>> before encoding
    codecOut,     \* codec: result of parseEscrowInstructionData, or NoParse
    pots,         \* API: the Pot rows
    deposits,     \* API: the Deposit rows in creation order; the id is the index
    luloOps,      \* API: the LuloOp rows in creation order
    chain,        \* API: the transactions the cluster recorded, by signature
    last,         \* API: the last confirm call: its request, what it read, its reply
    observed,     \* API: whether confirm calls are written to last
    assessed,     \* divergence: a spot quote, an oracle value and what was made of them
    run,          \* governance: the workflow run in progress
    requests,     \* signer: the /update_policy requests received, in arrival order
    shadowPolicyStore,            \* signer: pod_id -> ShadowPolicy
    allowOffchainPolicyFallback,  \* signer: SIGNER_ALLOW_OFFCHAIN_POLICY
    confirming    \* API: the withdrawal confirm handlers in flight, each at an await

clampVars == <<proposal, clamped>>

codecVars == <<codecIn, codecRaw, codecOut>>

apiVars == <<pots, deposits, luloOps, chain, last, observed>>

govVars == <<assessed, run>>

signerVars == <<requests, shadowPolicyStore, allowOffchainPolicyFallback>>

raceVars == <<confirming>>

vars == <<proposal, clamped, codecIn, codecRaw, codecOut, pots, deposits, luloOps,
          chain, last, observed, assessed, run, requests, shadowPolicyStore,
          allowOffchainPolicyFallback, confirming>>

(***************************************************************************)
(* Bounds of the model.                                                    *)
(***************************************************************************)
\* proposed weights range over -MaxWeight, 0..MaxWeight and the special values
MaxWeight == 3

\* at most MaxRecords rows are created through the prepare routes
MaxRecords == 2

\* at most MaxTxs transactions are recorded by the cluster
MaxTxs == 2

\* buffers handed to parseEscrowInstructionData have 0..RawMaxLen bytes
RawMaxLen == 64

\* the backend snapshot of a governance run lists at most MaxPods pods
MaxPods == 2

\* requests the signer service receives in one behaviour
MaxRequests == 2

(***************************************************************************)
(* JavaScript numbers.                                                     *)
(***************************************************************************)
RECURSIVE GCD(_, _)
GCD(a, b) ==
    IF b = 0 THEN a ELSE GCD(b, a % b)

Abs(x) ==
    IF x < 0 THEN -x ELSE x

Fin(n, d) ==
    LET g == GCD(Abs(n), d)
    IN [k |-> "fin", n |-> n \div g, d |-> d \div g]

Whole(n) ==
    Fin(n, 1)

NaN ==
    [k |-> "nan", n |-> 0, d |-> 1]

PosInf ==
    [k |-> "inf", n |-> 1, d |-> 1]

NegInf ==
    [k |-> "ninf", n |-> -1, d |-> 1]

Undefined ==
    [k |-> "undef", n |-> 0, d |-> 1]

isFinite(x) ==
    x.k = "fin"

RAdd(a, b) ==
    Fin(a.n * b.d + b.n * a.d, a.d * b.d)

RSub(a, b) ==
    Fin(a.n * b.d - b.n * a.d, a.d * b.d)

RMul(a, b) ==
    Fin(a.n * b.n, a.d * b.d)

\* a / b for finite a and finite b > 0
RDiv(a, b) ==
    Fin(a.n * b.d, a.d * b.n)

RLt(a, b) ==
    a.n * b.d < b.n * a.d

RLe(a, b) ==
    a.n * b.d <= b.n * a.d

\* Math.floor of a finite number, as an integer
RFloor(a) ==
    a.n \div a.d

\* Math.round of a finite number (halves round towards +Infinity), as an integer
RRound(a) ==
    (2 * a.n + a.d) \div (2 * a.d)

\* Math.max(0, x): NaN is contagious, -Infinity and negatives give 0
MathMax0(x) ==
    CASE x.k = "nan" -> NaN
      [] x.k = "undef" -> NaN
      [] x.k = "inf" -> PosInf
      [] x.k = "ninf" -> Whole(0)
      [] OTHER -> IF x.n < 0 THEN Whole(0) ELSE x

\* x ?? 0
NullishOr0(x) ==
    IF x.k = "undef" THEN Whole(0) ELSE x

\* a + b on values that are finite, NaN or +Infinity
JsAdd(a, b) ==
    CASE a.k = "nan" \/ b.k = "nan" -> NaN
      [] a.k = "inf" \/ b.k = "inf" -> PosInf
      [] OTHER -> RAdd(a, b)

(***************************************************************************)
(* Policy clamp (applyPolicyClamp).                                        *)
(***************************************************************************)
POD_RULES ==
    [LOW    |-> [luloFloorPct |-> 70, btc |-> [min |-> 0, max |-> 20],
                 eth |-> [min |-> 0, max |-> 15], sol |-> [min |-> 0, max |-> 15]],
     MEDIUM |-> [luloFloorPct |-> 50, btc |-> [min |-> 0, max |-> 30],
                 eth |-> [min |-> 0, max |-> 25], sol |-> [min |-> 0, max |-> 25]],
     HIGH   |-> [luloFloorPct |-> 30, btc |-> [min |-> 0, max |-> 40],
                 eth |-> [min |-> 0, max |-> 30], sol |-> [min |-> 0, max |-> 40]]]

\* clamp(value, min, max) with min, max finite
clamp(value, min, max) ==
    IF ~isFinite(value) THEN min
    ELSE IF RLt(value, min) THEN min
    ELSE IF RLt(max, value) THEN max
    ELSE value

Alloc(u, b, e, s) ==
    [usdc |-> u, btc |-> b, eth |-> e, sol |-> s]

normalizeTo100(weights) ==
    LET sum == JsAdd(JsAdd(JsAdd(weights.usdc, weights.btc), weights.eth), weights.sol)
    IN IF ~isFinite(sum) \/ sum.n <= 0
       THEN Alloc(Whole(100), Whole(0), Whole(0), Whole(0))
       ELSE LET scale == RDiv(Whole(100), sum)
            IN Alloc(RMul(weights.usdc, scale), RMul(weights.btc, scale),
                     RMul(weights.eth, scale), RMul(weights.sol, scale))

\* the fractional part raw - Math.floor(raw)
Frac(raw) ==
    RSub(raw, Whole(RFloor(raw)))

\* position (0-based) of key index i after the stable sort by descending frac:
\* the number of keys that sort before it
RankPos(fracs, i) ==
    Cardinality({j \in 1..4 : \/ RLt(fracs[i], fracs[j])
                              \/ (fracs[j] = fracs[i] /\ j < i)})

\* how many of the iterations i = 0 .. remaining-1 have i % 4 = pos
Increments(remaining, pos) ==
    IF remaining <= pos THEN 0 ELSE (remaining - pos + 3) \div 4

\* mutant: the floors alone, the remaining basis points are not distributed
toBpsExact10000_FloorsOnly(weights) ==
    Alloc(RFloor(RMul(weights.usdc, Whole(100))), RFloor(RMul(weights.btc, Whole(100))),
          RFloor(RMul(weights.eth, Whole(100))), RFloor(RMul(weights.sol, Whole(100))))

toBpsExact10000(weights) ==
    LET raw == <<RMul(weights.usdc, Whole(100)), RMul(weights.btc, Whole(100)),
                 RMul(weights.eth, Whole(100)), RMul(weights.sol, Whole(100))>>
        floor == <<RFloor(raw[1]), RFloor(raw[2]), RFloor(raw[3]), RFloor(raw[4])>>
        remaining == 10000 - (floor[1] + floor[2] + floor[3] + floor[4])
        fracs == <<Frac(raw[1]), Frac(raw[2]), Frac(raw[3]), Frac(raw[4])>>
    IN Alloc(floor[1] + Increments(remaining, RankPos(fracs, 1)),
             floor[2] + Increments(remaining, RankPos(fracs, 2)),
             floor[3] + Increments(remaining, RankPos(fracs, 3)),
             floor[4] + Increments(remaining, RankPos(fracs, 4)))

\* (input || "").trim().toUpperCase() on the strings of the model
trimToUpperCase(input) ==
    CASE input = "risk_off" -> "RISK_OFF"
      [] input = " caution " -> "CAUTION"
      [] input = "high" -> "HIGH"
      [] OTHER -> input

normalizeTier(input) ==
    LET value == trimToUpperCase(input)
    IN CASE value = "LOW" -> "LOW"
         [] value = "MED" \/ value = "MEDIUM" -> "MEDIUM"
         [] value = "HIGH" -> "HIGH"
         [] OTHER -> "LOW"

normalizeRisk(input) ==
    LET value == trimToUpperCase(input)
    IN CASE value = "CAUTION" -> "CAUTION"
         [] value = "RISK_OFF" -> "RISK_OFF"
         [] OTHER -> "NORMAL"

\* mutant: the volatile weights are not capped
boundCrypto_Uncapped(weights, rules) ==
    weights

boundCrypto(weights, rules) ==
    [weights EXCEPT
        !.btc = clamp(weights.btc, Whole(rules.btc.min), Whole(rules.btc.max)),
        !.eth = clamp(weights.eth, Whole(rules.eth.min), Whole(rules.eth.max)),
        !.sol = clamp(weights.sol, Whole(rules.sol.min), Whole(rules.sol.max))]

recomputeUsdcFromCrypto(weights) ==
    LET btc == MathMax0(weights.btc)
        eth == MathMax0(weights.eth)
        sol == MathMax0(weights.sol)
        usdc == MathMax0(RSub(Whole(100), RAdd(RAdd(btc, eth), sol)))
    IN Alloc(usdc, btc, eth, sol)

\* mutant: the mandatory floor is not enforced
enforceUsdcMinimum_NoFloor(weights, minUsdc) ==
    weights

enforceUsdcMinimum(weights, minUsdc) ==
    IF RLe(Whole(minUsdc), weights.usdc) THEN weights
    ELSE LET cryptoSum == RAdd(RAdd(MathMax0(weights.btc), MathMax0(weights.eth)),
                               MathMax0(weights.sol))
             targetCryptoTotal == MathMax0(Whole(100 - minUsdc))
         IN IF cryptoSum.n <= 0
            THEN Alloc(Whole(minUsdc), Whole(0), Whole(0), Whole(0))
            ELSE LET scale == RDiv(targetCryptoTotal, cryptoSum)
                 IN Alloc(Whole(minUsdc),
                          RMul(MathMax0(weights.btc), scale),
                          RMul(MathMax0(weights.eth), scale),
                          RMul(MathMax0(weights.sol), scale))

\* the final percentage weights of applyPolicyClamp (lines 196-213)
FinalWeights(input, rules) ==
    LET normalized == normalizeTo100(Alloc(
            MathMax0(NullishOr0(input.weightsPct.usdc)),
            MathMax0(NullishOr0(input.weightsPct.btc)),
            MathMax0(NullishOr0(input.weightsPct.eth)),
            MathMax0(NullishOr0(input.weightsPct.sol))))
        w1 == recomputeUsdcFromCrypto(boundCrypto(normalized, rules))
        w2 == enforceUsdcMinimum(w1, rules.luloFloorPct)
        w3 == recomputeUsdcFromCrypto(boundCrypto(w2, rules))
    IN IF RLt(w3.usdc, Whole(rules.luloFloorPct))
       THEN recomputeUsdcFromCrypto(boundCrypto(
                enforceUsdcMinimum(w3, rules.luloFloorPct), rules))
       ELSE w3

\* mutant: the requested yield is clamped into [0, 100] instead of [floor, 100]
\* and is never raised to the floor
YieldPct_FloorZero(input, rules, weights) ==
    LET raw == IF input.usdcInLuloPct.k = "undef" THEN weights.usdc
               ELSE input.usdcInLuloPct
        y0 == clamp(raw, Whole(0), Whole(100))
    IN IF RLt(weights.usdc, y0) THEN weights.usdc ELSE y0

\* the yield percentage of applyPolicyClamp (lines 215-229)
YieldPct(input, rules, weights) ==
    LET floorPct == Whole(rules.luloFloorPct)
        raw == IF input.usdcInLuloPct.k = "undef" THEN weights.usdc
               ELSE input.usdcInLuloPct
        y0 == clamp(raw, floorPct, Whole(100))
        y1 == IF RLt(weights.usdc, y0) THEN weights.usdc ELSE y0
        y2 == IF RLt(y1, floorPct) THEN floorPct ELSE y1
    IN IF RLt(weights.usdc, y2) THEN weights.usdc ELSE y2

Min(a, b) ==
    IF a < b THEN a ELSE b

Max(a, b) ==
    IF a > b THEN a ELSE b

\* mutant: under RISK_OFF everything is moved to USDC
applyPolicyClamp_RiskOffAllStable(input) ==
    LET podTier == normalizeTier(input.podTier)
        riskState == normalizeRisk(input.riskState)
        rules == POD_RULES[podTier]
        weights == IF riskState = "RISK_OFF"
                   THEN Alloc(Whole(100), Whole(0), Whole(0), Whole(0))
                   ELSE FinalWeights(input, rules)
        usdcInLuloPct == YieldPct(input, rules, weights)
        targetAllocationsBps == toBpsExact10000(weights)
        usdcInLuloBps == Min(targetAllocationsBps.usdc,
                             Max(0, RRound(RMul(usdcInLuloPct, Whole(100)))))
    IN [podTier |-> podTier,
        riskState |-> riskState,
        targetAllocationsBps |-> targetAllocationsBps,
        usdcInLuloBps |-> usdcInLuloBps]

applyPolicyClamp(input) ==
    LET podTier == normalizeTier(input.podTier)
        riskState == normalizeRisk(input.riskState)
        rules == POD_RULES[podTier]
        weights == FinalWeights(input, rules)
        usdcInLuloPct == YieldPct(input, rules, weights)
        targetAllocationsBps == toBpsExact10000(weights)
        usdcInLuloBps == Min(targetAllocationsBps.usdc,
                             Max(0, RRound(RMul(usdcInLuloPct, Whole(100)))))
    IN [podTier |-> podTier,
        riskState |-> riskState,
        targetAllocationsBps |-> targetAllocationsBps,
        usdcInLuloBps |-> usdcInLuloBps]

(***************************************************************************)
(* Escrow instruction codec (escrow-tx.ts, escrow.ts, u64le).              *)
(* A byte is a number in 0..255, a buffer a sequence of bytes.  A bigint   *)
(* in 0..2^64-1 is written as four 16-bit limbs, least significant first.  *)
(***************************************************************************)
LimbBase == 65536

\* sha256("global:" + ixName), first 8 bytes
anchorDiscriminator(ixName) ==
    CASE ixName = "deposit" -> <<242, 35, 198, 137, 82, 225, 242, 182>>
      [] ixName = "withdraw" -> <<183, 18, 70, 156, 148, 109, 161, 34>>
      [] ixName = "withdraw_with_fee" -> <<49, 171, 249, 135, 124, 152, 38, 38>>
      [] ixName = "deposit_usdc" -> <<184, 148, 250, 169, 224, 213, 34, 126>>
      [] ixName = "init_pot_vault" -> <<52, 136, 22, 85, 173, 182, 204, 185>>
      [] ixName = "lulo_execute" -> <<243, 247, 226, 10, 71, 162, 79, 170>>

\* sha256(potId), 32 bytes
potIdToHashBytes(potId) ==
    CASE potId = "pot-a" ->
            <<114, 154, 142, 213, 157, 104, 139, 114, 125, 31, 71, 170, 46, 125, 10, 158,
              146, 175, 162, 93, 91, 119, 11, 143, 85, 148, 118, 54, 144, 187, 172, 2>>
      [] potId = "pot-b" ->
            <<234, 119, 135, 235, 114, 48, 46, 72, 129, 148, 65, 197, 152, 192, 163, 252,
              99, 154, 109, 36, 162, 220, 234, 128, 53, 205, 243, 114, 39, 104, 144, 98>>
      [] potId = "admin-pot" ->
            <<156, 217, 185, 212, 1, 76, 130, 58, 249, 60, 134, 98, 90, 225, 60, 253,
              165, 170, 31, 221, 94, 172, 184, 130, 152, 56, 106, 31, 203, 16, 10, 222>>

\* BigInt(n) for a safe integer n >= 0 of the model
BigInt(n) ==
    <<n % LimbBase, (n \div LimbBase) % LimbBase, 0, 0>>

\* u64le: Buffer.alloc(8), writeBigUInt64LE(BigInt(n), 0)
u64le(x) ==
    <<x[1] % 256, x[1] \div 256, x[2] % 256, x[2] \div 256,
      x[3] % 256, x[3] \div 256, x[4] % 256, x[4] \div 256>>

\* mutant: the eight bytes are read most significant first
decodeU64LE_BigEndian(data) ==
    <<data[8] + 256 * data[7], data[6] + 256 * data[5],
      data[4] + 256 * data[3], data[2] + 256 * data[1]>>

\* decodeU64LE: readBigUInt64LE(0)
decodeU64LE(data) ==
    <<data[1] + 256 * data[2], data[3] + 256 * data[4],
      data[5] + 256 * data[6], data[7] + 256 * data[8]>>

\* feeLamports === null
Null ==
    <<>>

TooShort ==
    [ok |-> FALSE, discriminator |-> <<>>, potHash |-> <<>>,
     lamports |-> Null, feeLamports |-> Null]

\* mutant: the fee is read only from buffers longer than 56 bytes
parseEscrowInstructionData_FeeAbove56(raw) ==
    IF Len(raw) < 8 + 32 + 8
    THEN TooShort
    ELSE [ok |-> TRUE,
          discriminator |-> SubSeq(raw, 1, 8),
          potHash |-> SubSeq(raw, 9, 40),
          lamports |-> decodeU64LE(SubSeq(raw, 41, 48)),
          feeLamports |-> IF Len(raw) > 56 THEN decodeU64LE(SubSeq(raw, 49, 56))
                          ELSE Null]

\* throws escrow_ix_data_too_short (ok = FALSE) or returns the four fields
parseEscrowInstructionData(raw) ==
    IF Len(raw) < 8 + 32 + 8
    THEN TooShort
    ELSE [ok |-> TRUE,
          discriminator |-> SubSeq(raw, 1, 8),
          potHash |-> SubSeq(raw, 9, 40),
          lamports |-> decodeU64LE(SubSeq(raw, 41, 48)),
          feeLamports |-> IF Len(raw) >= 56 THEN decodeU64LE(SubSeq(raw, 49, 56))
                          ELSE Null]

\* Buffer.concat([discriminator, ph, u64le(lamports)]) and, with a fee,
\* Buffer.concat([discriminator, ph, u64le(lamports), u64le(feeLamports)])
EscrowData(discriminator, ph, lamports, feeLamports) ==
    IF feeLamports = Null
    THEN discriminator \o ph \o u64le(lamports)
    ELSE discriminator \o ph \o u64le(lamports) \o u64le(feeLamports)

(***************************************************************************)
(* Backend API: configuration, addresses and the transactions on chain.    *)
(* One user ("user") calls the API; the treasury is the wallet "admin".    *)
(* A signature is the position of the transaction in the chain.            *)
(***************************************************************************)
MIN_DEPOSIT_USD == 5

LOCKED_WITHDRAW_FEE_BPS == 1500

LAMPORTS_PER_SOL == 1000000000

\* Math.round(body.usd * 1_000_000) for a whole number of dollars
USDC_BASE_PER_USD == 1000000

escrowProgramId == "escrow"

otherProgramId == "other"

adminWallet == "admin"

adminPotId == "admin-pot"

\* !!luloProgramId: the deployment has LULO_PROGRAM_ID set
luloEnabled == TRUE

\* ALLOW_ADMIN_POT_WITHDRAWALS defaults to "false"
allowAdminPotWithdrawals == FALSE

\* a wallet, mint or program address
PublicKey(name) ==
    [seed |-> "", owner |-> name, potHash |-> <<>>]

\* PublicKey.findProgramAddressSync(["pot_vault", owner, potHash], escrowProgramId)
derivePotVaultPda(owner, potHash) ==
    [seed |-> "pot_vault", owner |-> owner, potHash |-> potHash]

deriveVaultPdaFromPotId(owner, potId) ==
    [pda |-> derivePotVaultPda(owner, potIdToHashBytes(potId)),
     potHash |-> potIdToHashBytes(potId)]

getAdminVaultPda ==
    deriveVaultPdaFromPotId(adminWallet, adminPotId).pda

isRestrictedAdminPot(potId) ==
    IF allowAdminPotWithdrawals THEN FALSE
    ELSE adminPotId # "" /\ potId = adminPotId

\* TRUE when the call is answered 403 admin_pot_restricted
rejectRestrictedAdminPot(walletAddress, potId) ==
    IF ~isRestrictedAdminPot(potId) THEN FALSE
    ELSE IF adminWallet # "" /\ walletAddress = adminWallet THEN FALSE
    ELSE TRUE

\* Math.ceil(a / b) for naturals a, b > 0
CeilDiv(a, b) ==
    (a + b - 1) \div b

\* Math.ceil((usd / solPriceUsd) * LAMPORTS_PER_SOL), usd and price whole numbers
QuoteLamports(usd, solPriceUsd) ==
    LET g == GCD(LAMPORTS_PER_SOL, solPriceUsd)
    IN  CeilDiv(usd * (LAMPORTS_PER_SOL \div g), solPriceUsd \div g)

\* mutant: the fee is rounded up
calcFeeLamports_RoundsUp(lamports) ==
    IF lamports <= 0 THEN 0
    ELSE (lamports \div 10000) * LOCKED_WITHDRAW_FEE_BPS
         + ((lamports % 10000) * LOCKED_WITHDRAW_FEE_BPS + 9999) \div 10000

\* Math.floor((lamports * LOCKED_WITHDRAW_FEE_BPS) / 10_000), the product split
\* so that it stays within the integers of the checker
calcFeeLamports(lamports) ==
    IF lamports <= 0 THEN 0
    ELSE (lamports \div 10000) * LOCKED_WITHDRAW_FEE_BPS
         + ((lamports % 10000) * LOCKED_WITHDRAW_FEE_BPS) \div 10000

Instruction(programId, keys, data) ==
    [programId |-> programId, keys |-> keys, data |-> data]

Transaction(err, instructions) ==
    [err |-> err, instructions |-> instructions]

\* the init_pot_vault instruction put first when the vault account is missing
InitPotVaultIx(owner, potId) ==
    LET v == deriveVaultPdaFromPotId(owner, potId)
    IN  Instruction(escrowProgramId,
                    <<PublicKey(owner), v.pda, PublicKey("usdcMint"),
                      PublicKey("vaultUsdc"), PublicKey("tokenProgram"),
                      PublicKey("ataProgram"), PublicKey("rent"), PublicKey("system")>>,
                    anchorDiscriminator("init_pot_vault") \o v.potHash)

\* feeLamports: undefined (the parameter is optional)
FeeUndefined == -1

\* the deposit / withdraw / withdraw_with_fee instruction of buildEscrowTx
EscrowIx(owner, potId, lamports, type, feeLamports) ==
    LET v == deriveVaultPdaFromPotId(owner, potId)
        withFee == type = "withdraw" /\ feeLamports # FeeUndefined /\ feeLamports > 0
        ixName == IF withFee THEN "withdraw_with_fee"
                  ELSE IF type = "deposit" THEN "deposit" ELSE "withdraw"
        data == EscrowData(anchorDiscriminator(ixName), v.potHash, BigInt(lamports),
                           IF withFee THEN BigInt(feeLamports) ELSE Null)
        keys == <<PublicKey(owner), v.pda>>
                \o (IF withFee THEN <<getAdminVaultPda>> ELSE <<>>)
                \o <<PublicKey("system")>>
    IN  Instruction(escrowProgramId, keys, data)

\* the instructions of the transaction buildEscrowTx returns
buildEscrowTx(owner, potId, lamports, type, feeLamports, vaultExists) ==
    (IF vaultExists THEN <<>> ELSE <<InitPotVaultIx(owner, potId)>>)
    \o <<EscrowIx(owner, potId, lamports, type, feeLamports)>>

\* the deposit_usdc instruction of /v1/deposits/usdc/prepare
DepositUsdcIx(owner, potId, usdcBaseUnits) ==
    LET v == deriveVaultPdaFromPotId(owner, potId)
    IN  Instruction(escrowProgramId,
                    <<PublicKey(owner), v.pda, PublicKey("usdcMint"),
                      PublicKey("userUsdc"), PublicKey("vaultUsdc"),
                      PublicKey("tokenProgram")>>,
                    EscrowData(anchorDiscriminator("deposit_usdc"), v.potHash,
                               BigInt(usdcBaseUnits), Null))

\* mutant: instructions of any program and any account list are kept
matchEscrowInstruction_AnyAccount(msg, expectedDiscriminator, expectedPda) ==
    LET Keep(ix) == /\ Len(ix.data) >= 8
                    /\ SubSeq(ix.data, 1, 8) = expectedDiscriminator
    IN  SelectSeq(msg, Keep)

\* the matches: instructions of the escrow program, at least 8 bytes of data,
\* the expected discriminator, the expected PDA among their accounts
matchEscrowInstruction(msg, expectedDiscriminator, expectedPda) ==
    LET Keep(ix) == /\ ix.programId = escrowProgramId
                    /\ Len(ix.data) >= 8
                    /\ SubSeq(ix.data, 1, 8) = expectedDiscriminator
                    /\ \E i \in 1..Len(ix.keys) : ix.keys[i] = expectedPda
    IN  SelectSeq(msg, Keep)

(***************************************************************************)
(* Backend API: the database rows and the reply of the last confirm call.  *)
(***************************************************************************)
\* txSig: null
NoSig == 0

\* a Deposit row; the status string `SOL_PENDING:${lamports}` is the pair
\* status = "SOL_PENDING", quote = lamports, and quote is 0 where the string
\* has no ":" part; netUsdc is a number, amountLamports the number printed
Deposit(userId, potId, netUsdc, amountLamports, status, quote, txSig) ==
    [userId |-> userId, potId |-> potId, netUsdc |-> netUsdc,
     amountLamports |-> amountLamports, status |-> status, quote |-> quote,
     txSig |-> txSig]

NoDeposit ==
    Deposit("", "", Whole(0), 0, "", 0, NoSig)

LuloOp(potId, userId, depositId, type, amountLamports, status) ==
    [potId |-> potId, userId |-> userId, depositId |-> depositId, type |-> type,
     amountLamports |-> amountLamports, status |-> status, txSig |-> NoSig]

Pot(id, userId, isLocked) ==
    [id |-> id, userId |-> userId, isLocked |-> isLocked]

\* connection.getTransaction returned null
NoTx ==
    [found |-> FALSE, err |-> FALSE, instructions |-> <<>>]

\* a transaction the cluster recorded, failed (meta.err set) or succeeded
Landed(err, instructions) ==
    [found |-> TRUE, err |-> err, instructions |-> instructions]

NoCall ==
    [route |-> "", id |-> 0, signature |-> NoSig, fetched |-> FALSE, tx |-> NoTx,
     before |-> NoDeposit, reply |-> ""]

\* no withdrawal confirm handler is in flight
RaceIdle ==
    confirming = <<>>

ApiIdle ==
    /\ pots = {}
    /\ deposits = <<>>
    /\ luloOps = <<>>
    /\ chain = <<>>
    /\ last = NoCall
    /\ observed = FALSE

\* prisma.pot.findFirst({ where: { id, userId } })
FindPot(potId, userId) ==
    {p \in pots : p.id = potId /\ p.userId = userId}

\* connection.getTransaction(signature)
getTransaction(signature) ==
    IF signature \in 1..Len(chain) THEN chain[signature] ELSE NoTx

\* the first error of a list of check results, "ok" when every check passed
FirstError(checks) ==
    LET failed == SelectSeq(checks, LAMBDA c : c # "")
    IN  IF failed = <<>> THEN "ok" ELSE Head(failed)

\* mutant: a failed transaction is treated like a successful one
TxOutcome_IgnoreErr(tx) ==
    IF ~tx.found THEN "tx_not_found" ELSE ""

\* if (!tx) tx_not_found; if (tx.meta?.err) tx_failed
TxOutcome(tx) ==
    IF ~tx.found THEN "tx_not_found"
    ELSE IF tx.err THEN "tx_failed"
    ELSE ""

\* mutant: with several matches the first one is taken
MatchOutcome_PickFirst(matches) ==
    IF Len(matches) = 0 THEN "escrow_ix_missing" ELSE ""

\* matches.length === 0: escrow_ix_missing; matches.length > 1: escrow_ix_multiple
MatchOutcome(matches) ==
    IF Len(matches) = 0 THEN "escrow_ix_missing"
    ELSE IF Len(matches) > 1 THEN "escrow_ix_multiple"
    ELSE ""

\* parse failure, pot hash and amount checks on matches[0].data
ParsedOutcome(parsed, expectedPotHash, expectedLamports) ==
    IF ~parsed.ok THEN "escrow_ix_invalid"
    ELSE IF parsed.potHash # expectedPotHash THEN "escrow_pot_mismatch"
    ELSE IF parsed.lamports # BigInt(expectedLamports) THEN "escrow_amount_mismatch"
    ELSE ""

\* feeLamports > 0n
BigPositive(x) ==
    x # BigInt(0)

\* mutant: any fee field of an unlocked pot's withdrawal is refused
FeeOutcome_AnyFee(locked, parsed, expectedLamports) ==
    IF locked
    THEN IF parsed.feeLamports # BigInt(calcFeeLamports(expectedLamports))
         THEN "escrow_fee_mismatch" ELSE ""
    ELSE IF parsed.feeLamports # Null THEN "escrow_unexpected_fee" ELSE ""

\* mutant: a locked pot's withdrawal is not checked for its fee
FeeOutcome_LockedUnchecked(locked, parsed, expectedLamports) ==
    IF locked THEN ""
    ELSE IF parsed.feeLamports # Null /\ BigPositive(parsed.feeLamports)
         THEN "escrow_unexpected_fee" ELSE ""

\* the fee check of /v1/withdrawals/sol/confirm
FeeOutcome(locked, parsed, expectedLamports) ==
    IF locked
    THEN IF parsed.feeLamports # BigInt(calcFeeLamports(expectedLamports))
         THEN "escrow_fee_mismatch" ELSE ""
    ELSE IF parsed.feeLamports # Null /\ BigPositive(parsed.feeLamports)
         THEN "escrow_unexpected_fee" ELSE ""

(***************************************************************************)
(* Governance workflow (cre/workflow.ts run, cre main.ts execute):         *)
(* divergence assessment and risk merging.                                 *)
(***************************************************************************)
\* a < b on JavaScript numbers; undefined converts to NaN
JsLt(a, b) ==
    CASE a.k \in {"nan", "undef"} \/ b.k \in {"nan", "undef"} -> FALSE
      [] a.k = "ninf" -> b.k # "ninf"
      [] b.k = "inf" -> a.k # "inf"
      [] a.k = "inf" \/ b.k = "ninf" -> FALSE
      [] OTHER -> RLt(a, b)

\* a >= b on JavaScript numbers
JsGe(a, b) ==
    /\ a.k \notin {"nan", "undef"}
    /\ b.k \notin {"nan", "undef"}
    /\ ~JsLt(a, b)

\* a * c for a finite c > 0
JsTimes(a, c) ==
    CASE a.k = "fin" -> RMul(a, c)
      [] a.k = "undef" -> NaN
      [] OTHER -> a

\* Math.abs of a finite number
MathAbs(a) ==
    Fin(Abs(a.n), a.d)

\* Math.max of two finite numbers
MathMax(a, b) ==
    IF RLt(a, b) THEN b ELSE a

\* x ?? y
Nullish(x, y) ==
    IF x.k = "undef" THEN y ELSE x

feedValue(feed, fallback) ==
    LET raw == Nullish(feed.answer, Nullish(feed.price,
                   Nullish(feed.dataAnswer, Nullish(feed.dataPrice, fallback))))
        value == IF raw.k = "undef" THEN NaN ELSE raw
    IN IF isFinite(value) /\ value.n > 0 THEN value ELSE fallback

divergencePct(spot, oracle) ==
    IF ~isFinite(spot) \/ ~isFinite(oracle) \/ oracle.n <= 0
    THEN Whole(0)
    ELSE RMul(MathAbs(RDiv(RSub(spot, oracle), oracle)), Whole(100))

\* mutant: only the non-positive check, no guard on the scale of the quote
sanitizeUsdcPerAssetSpot_NoScaleGuard(spotUsdcPerAsset, oracleUsdPerAsset) ==
    IF ~isFinite(spotUsdcPerAsset) \/ spotUsdcPerAsset.n <= 0
    THEN [value |-> oracleUsdPerAsset, warned |-> TRUE]
    ELSE [value |-> spotUsdcPerAsset, warned |-> FALSE]

\* the value returned and whether logger.warn (runtime.log) was called
sanitizeUsdcPerAssetSpot(spotUsdcPerAsset, oracleUsdPerAsset) ==
    IF ~isFinite(spotUsdcPerAsset) \/ spotUsdcPerAsset.n <= 0
    THEN [value |-> oracleUsdPerAsset, warned |-> TRUE]
    ELSE IF \/ JsLt(JsTimes(oracleUsdPerAsset, Whole(20)), spotUsdcPerAsset)
            \/ JsLt(spotUsdcPerAsset, JsTimes(oracleUsdPerAsset, Fin(1, 20)))
         THEN [value |-> oracleUsdPerAsset, warned |-> TRUE]
         ELSE [value |-> spotUsdcPerAsset, warned |-> FALSE]

\* rank[r]; -1 stands for undefined (r is not a key of rank)
rank(r) ==
    CASE r = "NORMAL" -> 0
      [] r = "CAUTION" -> 1
      [] r = "RISK_OFF" -> 2
      [] OTHER -> -1

\* mutant: the agent's risk state wins whenever it is a known one
maxRisk_AgentWins(a, b) ==
    IF rank(a) >= 0 THEN a ELSE b

\* rank[a] >= rank[b] is false when either side is undefined
maxRisk(a, b) ==
    IF rank(a) >= 0 /\ rank(b) >= 0 /\ rank(a) >= rank(b) THEN a ELSE b

riskFromDivergence(maxDivPct, cautionThreshold, riskOffThreshold) ==
    IF JsGe(maxDivPct, riskOffThreshold) THEN "RISK_OFF"
    ELSE IF JsGe(maxDivPct, cautionThreshold) THEN "CAUTION"
    ELSE "NORMAL"

\* Number(env.WRAP_DIVERGENCE_CAUTION_PCT || "2")
cautionThreshold ==
    Whole(2)

\* Number(env.WRAP_DIVERGENCE_RISK_OFF_PCT || "5")
riskOffThreshold ==
    Whole(5)

(***************************************************************************)
(* Policy clamp: inputs and the call.                                      *)
(***************************************************************************)
NoProposal ==
    [podTier |-> "", riskState |-> "", usdcInLuloPct |-> Undefined,
     weightsPct |-> Alloc(Undefined, Undefined, Undefined, Undefined)]

NoPolicy ==
    [podTier |-> "", riskState |-> "", usdcInLuloBps |-> -1,
     targetAllocationsBps |-> Alloc(-1, -1, -1, -1)]

\* a proposed weight that is a number: negative, zero or positive
FiniteWeights ==
    {Whole(-MaxWeight)} \cup {Whole(i) : i \in 0..MaxWeight}

\* a proposed weight: a number, absent or non-finite
WeightInputs ==
    FiniteWeights \cup {Undefined, NaN, PosInf}

\* a requested yield percentage: absent, negative, in range, above 100, non-finite
YieldInputs ==
    {Undefined, NaN, PosInf, Whole(-25), Whole(40), Fin(14001, 200), Whole(85),
     Whole(125)}

\* tier strings; "JUNK" is an unrecognised tier
TierInputs ==
    {"LOW", "MED", "HIGH", "JUNK"}

\* risk strings; "" is an absent or unrecognised risk
RiskInputs ==
    {"NORMAL", "CAUTION", "RISK_OFF", ""}

\* no quote has been assessed
NoQuote ==
    [spot |-> Undefined, oracle |-> Undefined, value |-> Undefined, warned |-> FALSE,
     divergence |-> Undefined, done |-> FALSE]

\* an AgentProposalResponse; absent fields are undefined
AgentProposalResponse(weights, proposedUsdcInLuloPct, usdcInLuloPct, proposedRiskState) ==
    [proposed_weights_pct |-> weights, proposed_usdc_in_lulo_pct |-> proposedUsdcInLuloPct,
     usdc_in_lulo_pct |-> usdcInLuloPct, proposed_risk_state |-> proposedRiskState]

NoAgent ==
    AgentProposalResponse(Alloc(Undefined, Undefined, Undefined, Undefined),
                          Undefined, Undefined, "")

\* a FeedResponse with numeric fields; an absent field is undefined
FeedResponse(answer, price, dataAnswer, dataPrice) ==
    [answer |-> answer, price |-> price, dataAnswer |-> dataAnswer, dataPrice |-> dataPrice]

NoFeed ==
    FeedResponse(Undefined, Undefined, Undefined, Undefined)

\* no request was sent to the signer
NoBody ==
    [pod_id |-> 0, target_allocations_bps |-> Alloc(-1, -1, -1, -1),
     usdc_in_lulo_bps |-> -1, risk_state |-> ""]

\* what one iteration of the loop over the pods computed, as far as it got
NoIteration ==
    [pod_id |-> 0, pod_tier |-> "", btcbSpot |-> Undefined, wethSpot |-> Undefined,
     maxDiv |-> Undefined, divergenceRisk |-> "", agent |-> NoAgent,
     clampInput |-> NoProposal, clamped |-> NoPolicy, signerBody |-> NoBody]

\* no run has been triggered; btcFeed and agent are what the BTC/USD feed and
\* the agent answer during the run
\* the answer of POST /update_policy; an absent signature is ""
SignerResponse(signature, simulated) ==
    [signature |-> signature, simulated |-> simulated]

NoSignerResponse ==
    SignerResponse("", FALSE)

NoRun ==
    [pc |-> "idle", entry |-> "", pods |-> <<>>, i |-> 0, results |-> <<>>,
     signerCalls |-> <<>>, failedAt |-> "", iteration |-> NoIteration,
     btcFeed |-> NoFeed, agent |-> NoAgent, runId |-> "",
     signerRes |-> NoSignerResponse, signerReturns |-> <<>>, audits |-> <<>>]

GovIdle ==
    /\ assessed = NoQuote
    /\ run = NoRun

SignerIdle ==
    /\ requests = <<>>
    /\ shadowPolicyStore = {}
    /\ allowOffchainPolicyFallback = FALSE

ClampIdle ==
    /\ proposal = NoProposal
    /\ clamped = NoPolicy

NoOp ==
    [discriminator |-> <<>>, potHash |-> <<>>, lamports |-> Null, feeLamports |-> Null]

NoParse ==
    [ok |-> FALSE, discriminator |-> <<0>>, potHash |-> <<>>,
     lamports |-> Null, feeLamports |-> Null]

CodecIdle ==
    /\ codecIn = NoOp
    /\ codecRaw = <<>>
    /\ codecOut = NoParse

\* the proposal of the documented scenario: 10% USDC, 50% BTC, 20% ETH, 20% SOL
ScenarioWeights ==
    Alloc(Whole(10), Whole(50), Whole(20), Whole(20))

ClampInit ==
    /\ proposal \in [podTier : TierInputs, riskState : {""},
                     usdcInLuloPct : YieldInputs,
                     weightsPct : [usdc : WeightInputs, btc : WeightInputs,
                                   eth : FiniteWeights, sol : FiniteWeights]
                                  \cup {ScenarioWeights}]
    /\ clamped = NoPolicy
    /\ CodecIdle
    /\ ApiIdle
    /\ GovIdle
    /\ SignerIdle
    /\ RaceIdle

\* one call of applyPolicyClamp on the proposal, with the caller's risk state
ApplyPolicyClamp ==
    /\ clamped = NoPolicy
    /\ \E r \in RiskInputs :
          /\ proposal' = [proposal EXCEPT !.riskState = r]
          /\ clamped' = applyPolicyClamp(proposal')
    /\ UNCHANGED <<raceVars, codecVars, apiVars, govVars, signerVars>>

NextClamp ==
    ApplyPolicyClamp

SpecClamp ==
    ClampInit /\ [][NextClamp]_vars

\* proposals for the comparison of risk states: the documented scenario and
\* weights that are absent, zero, negative, positive or NaN
RiskWeights ==
    {ScenarioWeights}
    \cup [usdc : {Whole(0), Whole(2), Undefined}, btc : {Whole(0), Whole(3), NaN},
          eth : {Whole(0), Whole(1)}, sol : {Whole(1), Whole(-3)}]

RiskInit ==
    /\ proposal \in [podTier : TierInputs, riskState : {""},
                     usdcInLuloPct : YieldInputs, weightsPct : RiskWeights]
    /\ clamped = NoPolicy
    /\ CodecIdle
    /\ ApiIdle
    /\ GovIdle
    /\ SignerIdle
    /\ RaceIdle

SpecRisk ==
    RiskInit /\ [][NextClamp]_vars

(***************************************************************************)
(* Codec: inputs, encoding and parsing.                                    *)
(***************************************************************************)
\* limbs of the amounts tried: both ends of the byte and of the limb
LimbInputs ==
    {0, 1, 256, LimbBase - 1}

FeeLimbInputs ==
    {0, LimbBase - 1}

DiscriminatorInputs ==
    {anchorDiscriminator("deposit"), anchorDiscriminator("withdraw"),
     anchorDiscriminator("withdraw_with_fee"), <<255, 255, 255, 255, 255, 255, 255, 255>>}

DigestInputs ==
    {potIdToHashBytes("pot-a"), [i \in 1..32 |-> 0]}

CodecInit ==
    /\ codecIn \in [discriminator : DiscriminatorInputs,
                    potHash : DigestInputs,
                    lamports : LimbInputs \X LimbInputs \X LimbInputs \X LimbInputs,
                    feeLamports : {Null} \cup (FeeLimbInputs \X FeeLimbInputs
                                               \X FeeLimbInputs \X FeeLimbInputs)]
    /\ codecRaw = <<>>
    /\ codecOut = NoParse
    /\ ClampIdle
    /\ ApiIdle
    /\ GovIdle
    /\ SignerIdle
    /\ RaceIdle

\* the instruction data laid out as buildEscrowTx lays it out
Encode ==
    /\ codecIn # NoOp
    /\ codecRaw = <<>>
    /\ codecRaw' = EscrowData(codecIn.discriminator, codecIn.potHash,
                              codecIn.lamports, codecIn.feeLamports)
    /\ UNCHANGED <<raceVars, codecIn, codecOut, clampVars, apiVars, govVars, signerVars>>

Parse ==
    /\ codecRaw # <<>>
    /\ codecOut = NoParse
    /\ codecOut' = parseEscrowInstructionData(codecRaw)
    /\ UNCHANGED <<raceVars, codecIn, codecRaw, clampVars, apiVars, govVars, signerVars>>

NextCodec ==
    \/ Encode
    \/ Parse

SpecCodec ==
    CodecInit /\ [][NextCodec]_vars

(***************************************************************************)
(* Codec: parsing buffers of every length.                                 *)
(***************************************************************************)
\* bytes that may follow the instruction data in a buffer
Padding ==
    [i \in 1..RawMaxLen |-> (7 * i) % 256]

\* buffers of 0..RawMaxLen bytes: a prefix of encoded instruction data followed
\* by padding
RawInputs ==
    {SubSeq(EscrowData(d, potIdToHashBytes("pot-a"), l, f) \o Padding, 1, n) :
        d \in {anchorDiscriminator("deposit"), anchorDiscriminator("withdraw_with_fee")},
        l \in {<<1, 0, 0, 0>>, <<LimbBase - 1, 256, 0, 1>>},
        f \in {<<0, 0, 0, 0>>, <<LimbBase - 1, 1, 256, LimbBase - 1>>},
        n \in 0..RawMaxLen}

ParseInit ==
    /\ codecIn = NoOp
    /\ codecRaw \in RawInputs
    /\ codecOut = NoParse
    /\ ClampIdle
    /\ ApiIdle
    /\ GovIdle
    /\ SignerIdle
    /\ RaceIdle

\* one call of parseEscrowInstructionData on the buffer
ParseBytes ==
    /\ codecOut = NoParse
    /\ codecOut' = parseEscrowInstructionData(codecRaw)
    /\ UNCHANGED <<raceVars, codecIn, codecRaw, clampVars, apiVars, govVars, signerVars>>

NextParse ==
    ParseBytes

SpecParse ==
    ParseInit /\ [][NextParse]_vars

(***************************************************************************)
(* Governance workflow: one run over the pods of the backend snapshot.     *)
(* entry "run" is run() of cre/workflow.ts, entry "execute" is execute()   *)
(* of the CRE SDK workflow.  A pod_id is the pod's position in the          *)
(* snapshot.                                                               *)
(***************************************************************************)
BackendPodSnapshot(podTier, btcbUsdc, wethUsdc, minUsdcInLuloPct) ==
    [pod_id |-> 0, pod_tier |-> podTier,
     dex_spot_prices |-> [btcb_usdc |-> btcbUsdc, weth_usdc |-> wethUsdc],
     policy |-> [min_usdc_in_lulo_pct |-> minUsdcInLuloPct]]

\* the awaited calls of one iteration, in order; each can throw
Steps(entry) ==
    IF entry = "run"
    THEN <<"readPodConfig", "feeds", "agent", "signer", "audit">>
    ELSE <<"feeds", "agent", "signer">>

\* whether the iteration gets past the given call when failAt is the call that throws
Completes(entry, step, failAt) ==
    \/ failAt = "none"
    \/ \E m, n \in 1..Len(Steps(entry)) :
          Steps(entry)[m] = step /\ Steps(entry)[n] = failAt /\ m < n

\* whether the given call is made at all
Attempts(entry, step, failAt) ==
    \/ Completes(entry, step, failAt)
    \/ failAt = step

\* agent.proposed_usdc_in_lulo_pct ?? agent.usdc_in_lulo_pct, then the fallback
RequestedUsdcInLuloPct(entry, pod, agent, onchainState) ==
    LET agentRaw == Nullish(agent.proposed_usdc_in_lulo_pct, agent.usdc_in_lulo_pct)
    IN IF entry = "run"
       THEN IF agentRaw.k = "undef"
            THEN MathMax0(JsTimes(onchainState.usdc_in_lulo_bps, Fin(1, 100)))
            ELSE agentRaw
       ELSE Nullish(agentRaw, pod.policy.min_usdc_in_lulo_pct)

\* mutant: every pod is clamped with the rules of the HIGH tier
ClampInput_HighTier(pod, agent, requestedUsdcInLuloPct, mergedRisk) ==
    [podTier |-> "HIGH", riskState |-> mergedRisk,
     usdcInLuloPct |-> requestedUsdcInLuloPct, weightsPct |-> agent.proposed_weights_pct]

\* the argument of applyPolicyClamp
ClampInput(pod, agent, requestedUsdcInLuloPct, mergedRisk) ==
    [podTier |-> pod.pod_tier, riskState |-> mergedRisk,
     usdcInLuloPct |-> requestedUsdcInLuloPct, weightsPct |-> agent.proposed_weights_pct]

\* the body of POST ${signerBase}/update_policy
SignerRequest(pod, policy) ==
    [pod_id |-> pod.pod_id, target_allocations_bps |-> policy.targetAllocationsBps,
     usdc_in_lulo_bps |-> policy.usdcInLuloBps, risk_state |-> policy.riskState]

\* one iteration of the loop, as far as it gets when the call failAt throws
Iteration(entry, pod, onchainState, btcFeed, ethFeed, agent, failAt) ==
    LET btcOracle == feedValue(btcFeed, pod.dex_spot_prices.btcb_usdc)
        ethOracle == feedValue(ethFeed, pod.dex_spot_prices.weth_usdc)
        btcbSpot == sanitizeUsdcPerAssetSpot(pod.dex_spot_prices.btcb_usdc, btcOracle).value
        wethSpot == sanitizeUsdcPerAssetSpot(pod.dex_spot_prices.weth_usdc, ethOracle).value
        maxDiv == MathMax(divergencePct(btcbSpot, btcOracle),
                          divergencePct(wethSpot, ethOracle))
        divergenceRisk == riskFromDivergence(maxDiv, cautionThreshold, riskOffThreshold)
        mergedRisk == maxRisk(agent.proposed_risk_state, divergenceRisk)
        input == ClampInput(pod, agent,
                            RequestedUsdcInLuloPct(entry, pod, agent, onchainState),
                            mergedRisk)
        policy == applyPolicyClamp(input)
    IN IF ~Completes(entry, "feeds", failAt)
       THEN [NoIteration EXCEPT !.pod_id = pod.pod_id, !.pod_tier = pod.pod_tier]
       ELSE IF ~Completes(entry, "agent", failAt)
       THEN [NoIteration EXCEPT !.pod_id = pod.pod_id, !.pod_tier = pod.pod_tier,
                                !.btcbSpot = btcbSpot, !.wethSpot = wethSpot,
                                !.maxDiv = maxDiv, !.divergenceRisk = divergenceRisk]
       ELSE [pod_id |-> pod.pod_id, pod_tier |-> pod.pod_tier, btcbSpot |-> btcbSpot,
             wethSpot |-> wethSpot, maxDiv |-> maxDiv, divergenceRisk |-> divergenceRisk,
             agent |-> agent, clampInput |-> input, clamped |-> policy,
             signerBody |-> SignerRequest(pod, policy)]

\* results.push({...})
WorkflowPodResult(it) ==
    [pod_id |-> it.pod_id, divergence_pct |-> it.maxDiv, risk_state |-> it.clamped.riskState]

\* the argument of ctx.onchain.writeWorkflowAudit
WorkflowAudit(pod, runId, policy) ==
    [pod_id |-> pod.pod_id, run_id |-> runId, risk_state |-> policy.riskState,
     target_allocations_bps |-> policy.targetAllocationsBps,
     usdc_in_lulo_bps |-> policy.usdcInLuloBps]

\* what the signer answers: a confirmed update with its signature, or the
\* simulated fallback, which carries no signature
SignerResponses ==
    {SignerResponse("sig-1", FALSE), SignerResponse("", TRUE)}

\* ctx.trigger.firedAt
FiredAt ==
    {"t1", "t2"}

\* pods of the backend snapshot: no divergence, 3% on BTC.b, 6% on WETH, and a
\* BTC.b quote of 0 (oracle answers are 100)
PodKinds ==
    <<BackendPodSnapshot("LOW", Whole(100), Whole(100), Whole(70)),
      BackendPodSnapshot("HIGH", Whole(103), Whole(100), Whole(30)),
      BackendPodSnapshot("MEDIUM", Whole(100), Whole(106), Whole(50)),
      BackendPodSnapshot("LOW", Whole(0), Whole(100), Whole(70))>>

\* the snapshots GET /v1/governance/pods can return: up to MaxPods pods, of
\* consecutive kinds starting from any kind
PodLists ==
    {[i \in 1..n |-> [PodKinds[((first + i) % Len(PodKinds)) + 1] EXCEPT !.pod_id = i]] :
        first \in 1..Len(PodKinds), n \in 0..MaxPods}

\* the BTC/USD feed answers in answer, in data.price, or not at all
FeedInputs ==
    {FeedResponse(Whole(100), Undefined, Undefined, Undefined),
     FeedResponse(Undefined, Undefined, Undefined, Whole(100)),
     FeedResponse(Undefined, Undefined, Undefined, Undefined)}

\* the ETH/USD feed answers in price
EthFeed ==
    FeedResponse(Undefined, Whole(100), Undefined, Undefined)

\* weights the agent proposes: the LOW-tier scenario and a malformed proposal
AgentWeights ==
    {Alloc(Whole(10), Whole(50), Whole(20), Whole(20)),
     Alloc(Whole(0), Whole(100), NaN, Undefined)}

\* the three risk states and a string that is none of them
AgentRisks ==
    {"NORMAL", "CAUTION", "RISK_OFF", "risk_off"}

\* the feeds and the agent answer every pod of one run alike
AgentInputs ==
    {AgentProposalResponse(w, y[1], y[2], r) :
        w \in AgentWeights,
        y \in {<<Undefined, Undefined>>, <<Whole(85), Undefined>>, <<Undefined, Whole(40)>>},
        r \in AgentRisks}

\* what readPodConfig returns
OnchainInputs ==
    {[risk_state |-> "NORMAL", usdc_in_lulo_bps |-> Whole(7500)]}

\* the trigger fires: GET /v1/governance/pods
StartRun ==
    /\ run.pc = "idle"
    /\ \E entry \in {"run", "execute"}, pods \in PodLists, podsOk \in BOOLEAN,
          btcFeed \in FeedInputs, agent \in AgentInputs,
          signerRes \in SignerResponses, firedAt \in FiredAt :
          run' = IF podsOk
                 THEN [run EXCEPT !.pc = "loop", !.entry = entry, !.pods = pods, !.i = 1,
                                  !.btcFeed = btcFeed, !.agent = agent,
                                  !.signerRes = signerRes, !.runId = firedAt]
                 ELSE [run EXCEPT !.pc = "thrown", !.entry = entry, !.failedAt = "pods"]
    /\ UNCHANGED <<raceVars, assessed, clampVars, codecVars, apiVars, signerVars>>

\* one iteration of for (const pod of pods.pods); a call that throws ends the run
ProcessPod ==
    /\ run.pc = "loop"
    /\ run.i <= Len(run.pods)
    /\ \E failAt \in {"none"} \cup {Steps(run.entry)[n] : n \in 1..Len(Steps(run.entry))},
          onchainState \in OnchainInputs :
          \E it \in {Iteration(run.entry, run.pods[run.i], onchainState, run.btcFeed,
                               EthFeed, run.agent, failAt)} :
             run' = IF failAt = "none"
                    THEN [run EXCEPT !.i = @ + 1,
                                     !.results = Append(@, WorkflowPodResult(it)),
                                     !.signerCalls = Append(@, it.pod_id),
                                     !.signerReturns = Append(@, it.pod_id),
                                     !.audits = IF run.entry = "run"
                                                THEN Append(@, WorkflowAudit(run.pods[run.i],
                                                               run.runId, it.clamped))
                                                ELSE @,
                                     !.iteration = it]
                    ELSE [run EXCEPT !.pc = "thrown", !.failedAt = failAt,
                                     !.signerCalls = IF Attempts(run.entry, "signer", failAt)
                                                     THEN Append(@, it.pod_id) ELSE @,
                                     !.signerReturns = IF failAt = "audit"
                                                       THEN Append(@, it.pod_id) ELSE @,
                                     !.iteration = it]
    /\ UNCHANGED <<raceVars, assessed, clampVars, codecVars, apiVars, signerVars>>

\* return { results }
FinishRun ==
    /\ run.pc = "loop"
    /\ run.i > Len(run.pods)
    /\ run' = [run EXCEPT !.pc = "returned"]
    /\ UNCHANGED <<raceVars, assessed, clampVars, codecVars, apiVars, signerVars>>

GovInit ==
    /\ ClampIdle
    /\ CodecIdle
    /\ ApiIdle
    /\ GovIdle
    /\ SignerIdle
    /\ RaceIdle

NextGov ==
    \/ StartRun
    \/ ProcessPod
    \/ FinishRun

SpecGov ==
    GovInit /\ [][NextGov]_vars

(***************************************************************************)
(* Divergence assessment of one quote.                                     *)
(***************************************************************************)
\* DEX spot quotes: absent, non-finite, non-positive, and values around 1/20
\* and 20 times an oracle value of 50000
SpotInputs ==
    {Undefined, NaN, PosInf, NegInf, Whole(-1), Whole(0), Fin(1, 2), Whole(1),
     Whole(2499), Whole(2500), Whole(50000), Whole(51000), Whole(1000000),
     Whole(1000001)}

\* oracle values: feedValue returns a finite positive number or its fallback,
\* which is the pod's own spot quote and can be anything
OracleInputs ==
    {Whole(50000), Whole(100), Fin(5, 2), Whole(0), Whole(-1), NaN, PosInf, NegInf}

DivergenceInit ==
    /\ assessed \in {[NoQuote EXCEPT !.spot = s, !.oracle = o] :
                        s \in SpotInputs, o \in OracleInputs}
    /\ run = NoRun
    /\ ClampIdle
    /\ CodecIdle
    /\ ApiIdle
    /\ SignerIdle
    /\ RaceIdle

\* sanitizeUsdcPerAssetSpot, then divergencePct of its result against the oracle
AssessSpot ==
    /\ ~assessed.done
    /\ \E s \in {sanitizeUsdcPerAssetSpot(assessed.spot, assessed.oracle)} :
          assessed' = [assessed EXCEPT !.value = s.value, !.warned = s.warned,
                                       !.divergence = divergencePct(s.value, assessed.oracle),
                                       !.done = TRUE]
    /\ UNCHANGED <<raceVars, run, clampVars, codecVars, apiVars, signerVars>>

NextDivergence ==
    AssessSpot

SpecDivergence ==
    DivergenceInit /\ [][NextDivergence]_vars

(***************************************************************************)
(* Signer service (signerService.ts): POST /update_policy.                 *)
(* An error message is the sequence of its parts; msg.includes(part) is    *)
(* membership of the part.                                                 *)
(***************************************************************************)
\* target_allocations_bps / target_allocations_pct left out of the body
NoAllocation ==
    Alloc(Undefined, Undefined, Undefined, Undefined)

\* z.number().int().min(0).max(10_000)
IsBps(x) ==
    isFinite(x) /\ x.d = 1 /\ x.n >= 0 /\ x.n <= 10000

\* z.number().min(0).max(100)
IsPct(x) ==
    isFinite(x) /\ x.n >= 0 /\ RLe(x, Whole(100))

\* mutant: the body is taken as it comes
payloadSchema_Unchecked(body) ==
    TRUE

\* whether payloadSchema.parse(req.body) returns; it throws a ZodError otherwise
payloadSchema(body) ==
    /\ body.pod_id # ""
    /\ \/ body.target_allocations_bps = NoAllocation
       \/ /\ IsBps(body.target_allocations_bps.usdc)
          /\ IsBps(body.target_allocations_bps.btc)
          /\ IsBps(body.target_allocations_bps.eth)
          /\ IsBps(body.target_allocations_bps.sol)
    /\ \/ body.target_allocations_pct = NoAllocation
       \/ /\ IsPct(body.target_allocations_pct.usdc)
          /\ IsPct(body.target_allocations_pct.btc)
          /\ IsPct(body.target_allocations_pct.eth)
          /\ IsPct(body.target_allocations_pct.sol)
    /\ IsBps(body.usdc_in_lulo_bps)
    /\ body.risk_state \in {"NORMAL", "CAUTION", "RISK_OFF"}

\* floors, then the remainder handed out one by one in descending order of the
\* fractional parts; nothing is taken back when the floors exceed 10000
toBpsExact10000FromPct(pct) ==
    LET raw == <<RMul(pct.usdc, Whole(100)), RMul(pct.btc, Whole(100)),
                 RMul(pct.eth, Whole(100)), RMul(pct.sol, Whole(100))>>
        out == <<RFloor(raw[1]), RFloor(raw[2]), RFloor(raw[3]), RFloor(raw[4])>>
        remainder == 10000 - (out[1] + out[2] + out[3] + out[4])
        fracs == <<Frac(raw[1]), Frac(raw[2]), Frac(raw[3]), Frac(raw[4])>>
    IN Alloc(Whole(out[1] + Increments(remainder, RankPos(fracs, 1))),
             Whole(out[2] + Increments(remainder, RankPos(fracs, 2))),
             Whole(out[3] + Increments(remainder, RankPos(fracs, 3))),
             Whole(out[4] + Increments(remainder, RankPos(fracs, 4))))

\* targetBps of the handler; NoAllocation stands for null
TargetBps(body) ==
    IF body.target_allocations_bps # NoAllocation THEN body.target_allocations_bps
    ELSE IF body.target_allocations_pct # NoAllocation
         THEN toBpsExact10000FromPct(body.target_allocations_pct)
         ELSE NoAllocation

\* the reply of the handler; code 0 stands for no reply yet
Reply(code, error, simulated) ==
    [code |-> code, error |-> error, simulated |-> simulated]

NoReply ==
    Reply(0, "", FALSE)

\* the checks before submitUpdateTx: the reply that refuses the request, or
\* NoReply when the request goes on to submitUpdateTx.  A ZodError leaves the
\* handler uncaught and the framework answers it with status 500.
Refusal(body) ==
    IF ~payloadSchema(body) THEN Reply(500, "ZodError", FALSE)
    ELSE IF TargetBps(body) = NoAllocation
         THEN Reply(400, "missing_target_allocations", FALSE)
    ELSE LET targetBps == TargetBps(body)
             sum == RAdd(RAdd(RAdd(targetBps.usdc, targetBps.btc), targetBps.eth),
                         targetBps.sol)
         IN IF sum # Whole(10000) THEN Reply(400, "invalid_target_sum", FALSE)
            ELSE IF RLt(targetBps.usdc, body.usdc_in_lulo_bps)
                 THEN Reply(400, "invalid_lulo_allocation", FALSE)
                 ELSE NoReply

\* String(err.message).includes(part)
includes(msg, part) ==
    \E n \in 1..Len(msg) : msg[n] = part

isMissingInstructionError(err) ==
    \/ includes(err, "InstructionFallbackNotFound")
    \/ includes(err, "custom program error: 0x65")

\* no error was thrown
NoError ==
    <<>>

\* a request of the service: its body, the allocation it submits, where its
\* handler is waiting, the error submitUpdateTx threw, and the reply
Request(body, targetBps, pc, err, reply) ==
    [body |-> body, targetBps |-> targetBps, pc |-> pc, submitted |-> pc # "done",
     err |-> err, reply |-> reply]

ShadowPolicy(body, targetBps) ==
    [pod_id |-> body.pod_id, target_allocations_bps |-> targetBps,
     usdc_in_lulo_bps |-> body.usdc_in_lulo_bps, risk_state |-> body.risk_state]

\* mutant: every error of submitUpdateTx is answered from the fallback when the
\* fallback is allowed
CatchReply_AnyError(allow, err) ==
    IF allow THEN Reply(200, "", TRUE) ELSE Reply(500, "update_policy_failed", FALSE)

\* the catch block of the handler: the reply for an error of submitUpdateTx
CatchReply(allow, err) ==
    IF allow /\ isMissingInstructionError(err)
    THEN Reply(200, "", TRUE)
    ELSE Reply(500, "update_policy_failed", FALSE)

(***************************************************************************)
(* The signer service: requests to POST /update_policy, each handler        *)
(* running up to its next await.                                           *)
(***************************************************************************)
SignerBody(podId, bps, pct, usdcInLuloBps, riskState) ==
    [pod_id |-> podId, target_allocations_bps |-> bps, target_allocations_pct |-> pct,
     usdc_in_lulo_bps |-> usdcInLuloBps, risk_state |-> riskState]

\* allocations in basis points that the handler refuses: a sum below 10000, a
\* sum of 10000 outside 0..10000, a sum of 10000 in halves
BpsInputs ==
    {Alloc(Whole(5000), Whole(0), Whole(0), Whole(0)),
     Alloc(Whole(10001), Whole(0), Whole(0), Whole(-1)),
     Alloc(Fin(13999, 2), Fin(6001, 2), Whole(0), Whole(0))}

\* allocations in percent: exact, thirds, twice the whole, out of range
PctInputs ==
    {Alloc(Whole(70), Whole(12), Whole(9), Whole(9)),
     Alloc(Fin(100, 3), Fin(100, 3), Fin(100, 3), Whole(0)),
     Alloc(Whole(100), Whole(100), Whole(0), Whole(0)),
     Alloc(Whole(101), Whole(0), Whole(0), Whole(-1))}

\* request bodies: a well-formed body for pod-a, one for pod-b that carries
\* both allocations, and bodies for pod-a that differ from the first in one field
SignerBodies ==
    LET good == Alloc(Whole(7000), Whole(1200), Whole(900), Whole(900))
    IN  {SignerBody("pod-a", good, NoAllocation, Whole(7000), "CAUTION"),
         SignerBody("pod-b", good, Alloc(Whole(100), Whole(100), Whole(0), Whole(0)),
                    Whole(0), "NORMAL")}
        \cup {SignerBody("pod-a", b, NoAllocation, Whole(0), "NORMAL") : b \in BpsInputs}
        \cup {SignerBody("pod-a", NoAllocation, p, Whole(0), "NORMAL") : p \in PctInputs}
        \cup {SignerBody("pod-a", NoAllocation, NoAllocation, Whole(0), "NORMAL"),
              SignerBody("pod-a", good, NoAllocation, Whole(7001), "NORMAL"),
              SignerBody("pod-a", good, NoAllocation, Fin(1, 2), "NORMAL"),
              SignerBody("pod-a", good, NoAllocation, Whole(0), "risk_off"),
              SignerBody("", good, NoAllocation, Whole(0), "NORMAL")}

\* what connection.getLatestBlockhash rejects with
BlockhashErrors ==
    {<<"fetch failed">>}

\* what connection.sendRawTransaction rejects with after the preflight simulation
SendErrors ==
    {<<"failed to send transaction: Transaction simulation failed",
       "custom program error: 0x65">>,
     <<"AnchorError occurred", "InstructionFallbackNotFound">>,
     <<"failed to send transaction: Transaction simulation failed",
       "custom program error: 0x1">>}

\* the error submitUpdateTx throws for a confirmation that carries an error
ConfirmErrors ==
    {<<"tx_failed:", "{\"InstructionError\":[0,{\"Custom\":101}]}">>}

SignerInit ==
    /\ requests = <<>>
    /\ shadowPolicyStore = {}
    /\ allowOffchainPolicyFallback \in BOOLEAN
    /\ ClampIdle
    /\ CodecIdle
    /\ ApiIdle
    /\ GovIdle
    /\ RaceIdle

\* POST /update_policy up to its first await: the schema, the target
\* allocation and its checks, then submitUpdateTx up to getLatestBlockhash
ReceiveUpdatePolicy ==
    /\ Len(requests) < MaxRequests
    /\ \E body \in SignerBodies :
          \E refusal \in {Refusal(body)} :
             requests' = Append(requests,
                IF refusal # NoReply
                THEN Request(body, NoAllocation, "done", NoError, refusal)
                ELSE Request(body, TargetBps(body), "getLatestBlockhash", NoError, NoReply))
    /\ UNCHANGED <<raceVars, shadowPolicyStore, allowOffchainPolicyFallback>>
    /\ UNCHANGED <<raceVars, clampVars, codecVars, apiVars, govVars>>

\* no snapshot: GET /policy/:podId found nothing
NoShadowPolicy ==
    [pod_id |-> "", target_allocations_bps |-> NoAllocation,
     usdc_in_lulo_bps |-> Undefined, risk_state |-> ""]

\* GET /policy/:podId: the stored snapshot of the pod, or 404 policy_not_found
getPolicy(podId) ==
    IF \E s \in shadowPolicyStore : s.pod_id = podId
    THEN [code |-> 200, policy |-> CHOOSE s \in shadowPolicyStore : s.pod_id = podId]
    ELSE [code |-> 404, policy |-> NoShadowPolicy]

\* mutant: the snapshot is stored for every error of submitUpdateTx
Catch_StoreAlways(r, err) ==
    \E reply \in {CatchReply(allowOffchainPolicyFallback, err)} :
       /\ requests' = [requests EXCEPT ![r].pc = "done", ![r].err = err, ![r].reply = reply]
       /\ shadowPolicyStore' =
             {s \in shadowPolicyStore : s.pod_id # requests[r].body.pod_id}
             \cup {ShadowPolicy(requests[r].body, requests[r].targetBps)}

\* the catch block of the handler for request r and the error err
Catch(r, err) ==
    \E reply \in {CatchReply(allowOffchainPolicyFallback, err)} :
       /\ requests' = [requests EXCEPT ![r].pc = "done", ![r].err = err, ![r].reply = reply]
       /\ shadowPolicyStore' =
             IF reply.simulated
             THEN {s \in shadowPolicyStore : s.pod_id # requests[r].body.pod_id}
                  \cup {ShadowPolicy(requests[r].body, requests[r].targetBps)}
             ELSE shadowPolicyStore

\* getLatestBlockhash settles for request r; the transaction is built and signed
\* and sendRawTransaction is called
BlockhashReturns ==
    /\ \E r \in 1..Len(requests) :
          /\ requests[r].pc = "getLatestBlockhash"
          /\ \/ /\ requests' = [requests EXCEPT ![r].pc = "sendRawTransaction"]
                /\ UNCHANGED shadowPolicyStore
             \/ \E err \in BlockhashErrors : Catch(r, err)
    /\ UNCHANGED allowOffchainPolicyFallback
    /\ UNCHANGED <<raceVars, clampVars, codecVars, apiVars, govVars>>

\* sendRawTransaction settles for request r; confirmTransaction is called
SendReturns ==
    /\ \E r \in 1..Len(requests) :
          /\ requests[r].pc = "sendRawTransaction"
          /\ \/ /\ requests' = [requests EXCEPT ![r].pc = "confirmTransaction"]
                /\ UNCHANGED shadowPolicyStore
             \/ \E err \in SendErrors : Catch(r, err)
    /\ UNCHANGED allowOffchainPolicyFallback
    /\ UNCHANGED <<raceVars, clampVars, codecVars, apiVars, govVars>>

\* confirmTransaction settles for request r: the handler replies ok, or
\* submitUpdateTx throws tx_failed and the catch block replies
ConfirmReturns ==
    /\ \E r \in 1..Len(requests) :
          /\ requests[r].pc = "confirmTransaction"
          /\ \/ /\ requests' = [requests EXCEPT ![r].pc = "done",
                                                ![r].reply = Reply(200, "", FALSE)]
                /\ UNCHANGED shadowPolicyStore
             \/ \E err \in ConfirmErrors : Catch(r, err)
    /\ UNCHANGED allowOffchainPolicyFallback
    /\ UNCHANGED <<raceVars, clampVars, codecVars, apiVars, govVars>>

NextSigner ==
    \/ ReceiveUpdatePolicy
    \/ BlockhashReturns
    \/ SendReturns
    \/ ConfirmReturns

SpecSigner ==
    SignerInit /\ [][NextSigner]_vars


(***************************************************************************)
(* Backend API: the prepare routes and the wallet's transactions.          *)
(***************************************************************************)
\* the ids prisma gives the user's pots, in creation order
PotIds ==
    <<"pot-a", "pot-b">>

\* body.usd: below and at the minimum deposit
UsdInputs ==
    {1, MIN_DEPOSIT_USD}

\* getSolUsdPriceCached(): USD per SOL, an external quote
SolPriceInputs ==
    {LAMPORTS_PER_SOL \div 2}

\* body.signature: a recorded transaction's, or one the cluster has not seen
Signatures ==
    1..(MaxTxs + 1)

UserPots ==
    {p \in pots : p.userId = "user"}

\* body.isLocked of the pots the user creates: an open pot, then a locked one
PotLocks ==
    <<FALSE, TRUE>>

\* POST /v1/pots
CreatePot ==
    /\ Cardinality(UserPots) < Len(PotIds)
    /\ LET n == Cardinality(UserPots) + 1
       IN  pots' = pots \cup {Pot(PotIds[n], "user", PotLocks[n])}
    /\ UNCHANGED <<raceVars, govVars, signerVars, clampVars, codecVars, deposits, luloOps, chain, last, observed>>

\* POST /v1/deposits/sol/prepare
PrepareSolDeposit ==
    /\ Len(deposits) < MaxRecords
    /\ \E potId \in {p.id : p \in pots}, usd \in UsdInputs, solPriceUsd \in SolPriceInputs :
           LET lamports == QuoteLamports(usd, solPriceUsd)
           IN  /\ usd >= MIN_DEPOSIT_USD
               /\ FindPot(potId, "user") # {}
               /\ lamports > 0
               /\ deposits' = Append(deposits,
                                     Deposit("user", potId, Whole(usd), lamports,
                                             "SOL_PENDING", lamports, NoSig))
    /\ UNCHANGED <<raceVars, govVars, signerVars, clampVars, codecVars, pots, luloOps, chain, last, observed>>

\* POST /v1/deposits/usdc/prepare
PrepareUsdcDeposit ==
    /\ Len(deposits) < MaxRecords
    /\ \E potId \in {p.id : p \in pots}, usd \in UsdInputs :
           LET usdcBaseUnits == usd * USDC_BASE_PER_USD
           IN  /\ usd >= MIN_DEPOSIT_USD
               /\ FindPot(potId, "user") # {}
               /\ usdcBaseUnits > 0
               /\ deposits' = Append(deposits,
                                     Deposit("user", potId, Whole(usd), usdcBaseUnits,
                                             "USDC_PENDING", usdcBaseUnits, NoSig))
    /\ UNCHANGED <<raceVars, govVars, signerVars, clampVars, codecVars, pots, luloOps, chain, last, observed>>

\* usdcBase of the "low" strategy: floor(total * 0.7) plus what the four floors
\* leave of the total
AllocUsdcBase(totalBase) ==
    LET usdc == (totalBase * 70) \div 100
        btc == (totalBase * 15) \div 100
        eth == (totalBase * 10) \div 100
        sol == (totalBase * 5) \div 100
    IN  usdc + (totalBase - (usdc + btc + eth + sol))

\* POST /v1/deposits/allocate/prepare, on a mainnet deployment with the mints,
\* Lulo and Jupiter configured, for a pot of the "low" strategy
PrepareAllocate ==
    /\ Len(deposits) < MaxRecords
    /\ luloEnabled
    /\ \E potId \in {p.id : p \in pots}, usd \in UsdInputs :
           LET totalBase == usd * USDC_BASE_PER_USD
               usdcBase == AllocUsdcBase(totalBase)
           IN  /\ usd >= MIN_DEPOSIT_USD
               /\ FindPot(potId, "user") # {}
               /\ totalBase > 0
               /\ deposits' = Append(deposits,
                                     Deposit("user", potId, Whole(usd), totalBase,
                                             "ALLOC_PENDING", 0, NoSig))
               /\ luloOps' = IF usdcBase > 0
                             THEN Append(luloOps,
                                         LuloOp(potId, "user", Len(deposits) + 1,
                                                "ALLOCATE", usdcBase, "TX_READY"))
                             ELSE luloOps
    /\ UNCHANGED <<raceVars, govVars, signerVars, clampVars, codecVars, pots, chain, last, observed>>

RECURSIVE SumNetUsdc(_)
\* deposits.reduce((a, d) => a + d.netUsdc, 0)
SumNetUsdc(rows) ==
    IF rows = <<>> THEN Whole(0)
    ELSE RAdd(rows[1].netUsdc, SumNetUsdc(Tail(rows)))

\* the ledger balance /v1/withdrawals/sol/prepare reads
Balance(potId, userId) ==
    SumNetUsdc(SelectSeq(deposits,
                         LAMBDA d : /\ d.potId = potId
                                    /\ d.userId = userId
                                    /\ d.status \in {"SOL_CONFIRMED", "WITHDRAW_CONFIRMED"}))

\* POST /v1/withdrawals/sol/prepare, for a user without recovery lock whose vault
\* (and, for a locked pot, the admin vault) exists and holds the lamports
PrepareWithdrawalUpTo(maxRows) ==
    /\ Len(deposits) < maxRows
    /\ \E potId \in {p.id : p \in pots}, usd \in UsdInputs, solPriceUsd \in SolPriceInputs :
           LET lamports == QuoteLamports(usd, solPriceUsd)
           IN  /\ ~rejectRestrictedAdminPot("user", potId)
               /\ FindPot(potId, "user") # {}
               /\ ~RLt(Balance(potId, "user"), Whole(usd))
               /\ deposits' = Append(deposits,
                                     Deposit("user", potId, Whole(-usd), lamports,
                                             "WITHDRAW_PENDING", lamports, NoSig))
    /\ UNCHANGED <<raceVars, govVars, signerVars, clampVars, codecVars, pots, luloOps, chain, last, observed>>

\* the route with the table bounded by MaxRecords rows
PrepareWithdrawal ==
    PrepareWithdrawalUpTo(MaxRecords)

\* the instructions of the transaction the prepare route built for a row
PreparedInstructions(dep, vaultExists) ==
    LET locked == \E p \in pots : p.id = dep.potId /\ p.isLocked
        initIx == IF vaultExists THEN <<>> ELSE <<InitPotVaultIx(dep.userId, dep.potId)>>
    IN  CASE dep.status = "SOL_PENDING" ->
                 buildEscrowTx(dep.userId, dep.potId, dep.quote, "deposit",
                               FeeUndefined, vaultExists)
          [] dep.status = "WITHDRAW_PENDING" ->
                 buildEscrowTx(dep.userId, dep.potId, dep.quote, "withdraw",
                               IF locked THEN calcFeeLamports(dep.quote)
                               ELSE FeeUndefined, TRUE)
          [] dep.status = "USDC_PENDING" ->
                 initIx \o <<DepositUsdcIx(dep.userId, dep.potId, dep.quote)>>
          [] dep.status = "ALLOC_PENDING" ->
                 initIx \o <<DepositUsdcIx(dep.userId, dep.potId,
                                           AllocUsdcBase(dep.amountLamports))>>
          [] OTHER -> <<>>

\* a row still waiting for its transaction
IsPending(dep) ==
    dep.status \in {"SOL_PENDING", "USDC_PENDING", "ALLOC_PENDING", "WITHDRAW_PENDING"}

\* what a wallet sends: the transaction prepared for a pending row, or a
\* transaction without any escrow instruction
WalletInstructions ==
    {<<>>}
    \cup {PreparedInstructions(deposits[i], TRUE) :
              i \in {j \in 1..Len(deposits) : IsPending(deposits[j])}}

\* the cluster records a transaction, failed or succeeded
LandUpTo(maxTxs) ==
    /\ Len(chain) < maxTxs
    /\ \E err \in BOOLEAN, ixs \in WalletInstructions :
           /\ ixs = <<>> => ~err
           /\ chain' = Append(chain, Landed(err, ixs))
    /\ UNCHANGED <<raceVars, govVars, signerVars, clampVars, codecVars, pots, deposits, luloOps, last, observed>>

\* the cluster with at most MaxTxs transactions
Land ==
    LandUpTo(MaxTxs)

(***************************************************************************)
(* Backend API: the confirm routes.  Each reply operator gives the pair    *)
(* (reply, fetched): the error string sent, or "ok", and whether the       *)
(* handler got as far as connection.getTransaction.                        *)
(***************************************************************************)
Answer(reply, fetched) ==
    [reply |-> reply, fetched |-> fetched]

\* the checks before the transaction is fetched, common to the SOL deposit, USDC
\* deposit and withdrawal confirm routes; "" when the handler goes on
StatusOutcome(dep, signature, confirmed, pending, missingQuote, checkSigWhilePending) ==
    IF dep.status = confirmed
    THEN IF dep.txSig # NoSig /\ dep.txSig # signature THEN "signature_mismatch"
         ELSE "ok"
    ELSE IF dep.status # pending THEN "invalid_state"
    ELSE IF checkSigWhilePending /\ dep.txSig # NoSig /\ dep.txSig # signature
         THEN "signature_mismatch"
    ELSE IF dep.quote <= 0 THEN missingQuote
    ELSE ""

\* the checks on the fetched transaction up to the amount
EscrowOutcome(tx, ixName, dep) ==
    LET v == deriveVaultPdaFromPotId("user", dep.potId)
        matches == matchEscrowInstruction(tx.instructions, anchorDiscriminator(ixName),
                                          v.pda)
    IN  FirstError(<<TxOutcome(tx),
                     MatchOutcome(matches),
                     IF Len(matches) = 0 THEN ""
                     ELSE ParsedOutcome(parseEscrowInstructionData(matches[1].data),
                                        v.potHash, dep.quote)>>)

\* POST /v1/deposits/sol/confirm: the reply
SolDepositConfirmReply(dep, signature) ==
    LET early == StatusOutcome(dep, signature, "SOL_CONFIRMED", "SOL_PENDING",
                               "deposit_missing_quote", TRUE)
    IN  IF dep.userId # "user" THEN Answer("deposit_not_found", FALSE)
        ELSE IF early # "" THEN Answer(early, FALSE)
        ELSE Answer(EscrowOutcome(getTransaction(signature), "deposit", dep), TRUE)

\* POST /v1/deposits/usdc/confirm: the reply
UsdcDepositConfirmReply(dep, signature) ==
    LET early == StatusOutcome(dep, signature, "USDC_CONFIRMED", "USDC_PENDING",
                               "deposit_missing_quote", FALSE)
    IN  IF dep.userId # "user" THEN Answer("deposit_not_found", FALSE)
        ELSE IF early # "" THEN Answer(early, FALSE)
        ELSE Answer(EscrowOutcome(getTransaction(signature), "deposit_usdc", dep), TRUE)

\* POST /v1/deposits/allocate/confirm: the reply
AllocateConfirmReply(dep, signature) ==
    IF dep.userId # "user" THEN Answer("deposit_not_found", FALSE)
    ELSE Answer(FirstError(<<TxOutcome(getTransaction(signature))>>), TRUE)

\* POST /v1/withdrawals/sol/confirm: the reply
WithdrawalConfirmReply(wd, signature) ==
    LET early == StatusOutcome(wd, signature, "WITHDRAW_CONFIRMED", "WITHDRAW_PENDING",
                               "withdrawal_missing_quote", TRUE)
        pot == FindPot(wd.potId, "user")
        locked == \E p \in pot : p.isLocked
        tx == getTransaction(signature)
        v == deriveVaultPdaFromPotId("user", wd.potId)
        ixName == IF locked THEN "withdraw_with_fee" ELSE "withdraw"
        matches == matchEscrowInstruction(tx.instructions, anchorDiscriminator(ixName),
                                          v.pda)
        upToAmount == EscrowOutcome(tx, ixName, wd)
    IN  IF wd.userId # "user" THEN Answer("withdrawal_not_found", FALSE)
        ELSE IF rejectRestrictedAdminPot("user", wd.potId)
        THEN Answer("admin_pot_restricted", FALSE)
        ELSE IF early # "" THEN Answer(early, FALSE)
        ELSE IF pot = {} THEN Answer("pot_not_found", FALSE)
        ELSE IF upToAmount # "ok" THEN Answer(upToAmount, TRUE)
        ELSE Answer(FirstError(<<FeeOutcome(locked,
                                            parseEscrowInstructionData(matches[1].data),
                                            wd.quote)>>), TRUE)

\* what the handler leaves for the properties to read
Call(route, id, signature, answer) ==
    IF ~observed THEN NoCall
    ELSE
    [route |-> route, id |-> id, signature |-> signature, fetched |-> answer.fetched,
     tx |-> IF answer.fetched THEN getTransaction(signature) ELSE NoTx,
     before |-> deposits[id], reply |-> answer.reply]

\* prisma.deposit.update({ data: { status, txSig } })
UpdateDeposit(id, status, signature) ==
    [deposits EXCEPT ![id].status = status, ![id].quote = 0, ![id].txSig = signature]

\* mutant: the row is marked confirmed whatever the checks answer
ConfirmSolDeposit_UpdatesAlways ==
    \E id \in 1..Len(deposits), signature \in Signatures :
        LET answer == SolDepositConfirmReply(deposits[id], signature)
        IN  /\ deposits' = UpdateDeposit(id, "SOL_CONFIRMED", signature)
            /\ last' = Call("sol", id, signature, answer)
            /\ UNCHANGED <<raceVars, govVars, signerVars, clampVars, codecVars, pots, luloOps, chain,
                           observed>>

\* POST /v1/deposits/sol/confirm
ConfirmSolDeposit ==
    \E id \in 1..Len(deposits), signature \in Signatures :
        LET dep == deposits[id]
            answer == SolDepositConfirmReply(dep, signature)
            updates == answer.reply = "ok" /\ answer.fetched
            existingOp == \E i \in 1..Len(luloOps) :
                              luloOps[i].depositId = id /\ luloOps[i].type = "ALLOCATE"
        IN  /\ deposits' = IF updates THEN UpdateDeposit(id, "SOL_CONFIRMED", signature)
                           ELSE deposits
            /\ luloOps' = IF updates /\ luloEnabled /\ ~existingOp
                          THEN Append(luloOps, LuloOp(dep.potId, "user", id, "ALLOCATE",
                                                      dep.quote, "PENDING"))
                          ELSE luloOps
            /\ last' = Call("sol", id, signature, answer)
            /\ UNCHANGED <<raceVars, govVars, signerVars, clampVars, codecVars, pots, chain, observed>>

\* POST /v1/deposits/usdc/confirm
ConfirmUsdcDeposit ==
    \E id \in 1..Len(deposits), signature \in Signatures :
        LET answer == UsdcDepositConfirmReply(deposits[id], signature)
            updates == answer.reply = "ok" /\ answer.fetched
        IN  /\ deposits' = IF updates THEN UpdateDeposit(id, "USDC_CONFIRMED", signature)
                           ELSE deposits
            /\ last' = Call("usdc", id, signature, answer)
            /\ UNCHANGED <<raceVars, govVars, signerVars, clampVars, codecVars, pots, luloOps, chain, observed>>

\* POST /v1/deposits/allocate/confirm; body.luloOpId is absent (0) or an
\* operation of the row
ConfirmAllocate ==
    \E id \in 1..Len(deposits), signature \in Signatures :
      \E luloOpId \in {0} \cup {i \in 1..Len(luloOps) : luloOps[i].depositId = id} :
        LET answer == AllocateConfirmReply(deposits[id], signature)
            updates == answer.reply = "ok"
        IN  /\ deposits' = IF updates THEN UpdateDeposit(id, "ALLOC_CONFIRMED", signature)
                           ELSE deposits
            /\ luloOps' = IF updates /\ luloOpId # 0
                          THEN [luloOps EXCEPT ![luloOpId].status = "CONFIRMED",
                                               ![luloOpId].txSig = signature]
                          ELSE luloOps
            /\ last' = Call("allocate", id, signature, answer)
            /\ UNCHANGED <<raceVars, govVars, signerVars, clampVars, codecVars, pots, chain, observed>>

\* POST /v1/withdrawals/sol/confirm, with the FEE_CONFIRMED row of the treasury
ConfirmWithdrawal ==
    \E id \in 1..Len(deposits), signature \in Signatures :
        LET wd == deposits[id]
            answer == WithdrawalConfirmReply(wd, signature)
            updates == answer.reply = "ok" /\ answer.fetched
            locked == \E p \in FindPot(wd.potId, "user") : p.isLocked
            feeUsd == RMul(Fin(Abs(wd.netUsdc.n), wd.netUsdc.d),
                           RDiv(Whole(LOCKED_WITHDRAW_FEE_BPS), Whole(10000)))
            books == /\ updates /\ locked /\ adminWallet # "" /\ adminPotId # ""
                     /\ RLt(Whole(0), feeUsd)
            existingFee == \E i \in 1..Len(deposits) :
                               /\ deposits[i].potId = adminPotId
                               /\ deposits[i].userId = adminWallet
                               /\ deposits[i].txSig = signature
                               /\ deposits[i].status = "FEE_CONFIRMED"
            updated == IF updates THEN UpdateDeposit(id, "WITHDRAW_CONFIRMED", signature)
                       ELSE deposits
        IN  /\ deposits' = IF books /\ ~existingFee
                           THEN Append(updated,
                                       Deposit(adminWallet, adminPotId, feeUsd,
                                               calcFeeLamports(wd.quote),
                                               "FEE_CONFIRMED", 0, signature))
                           ELSE updated
            /\ pots' = IF books /\ ~(\E p \in pots : p.id = adminPotId)
                       THEN pots \cup {Pot(adminPotId, adminWallet, FALSE)}
                       ELSE pots
            /\ last' = Call("withdraw", id, signature, answer)
            /\ UNCHANGED <<raceVars, govVars, signerVars, clampVars, codecVars, luloOps, chain, observed>>

(***************************************************************************)
(* Backend API: the service from an empty database.                        *)
(***************************************************************************)
Init ==
    /\ ClampIdle
    /\ CodecIdle
    /\ ApiIdle
    /\ GovIdle
    /\ SignerIdle
    /\ RaceIdle

Next ==
    \/ CreatePot
    \/ PrepareSolDeposit
    \/ PrepareUsdcDeposit
    \/ PrepareAllocate
    \/ PrepareWithdrawal
    \/ Land
    \/ ConfirmSolDeposit
    \/ ConfirmUsdcDeposit
    \/ ConfirmAllocate
    \/ ConfirmWithdrawal

Spec ==
    Init /\ [][Next]_vars

(***************************************************************************)
(* Backend API: one pending row and one transaction of any content.        *)
(* The database holds a confirmed SOL deposit of the row's pot and the     *)
(* pending row; the cluster recorded the deposit's transaction and one     *)
(* more transaction, built from the instruction the verifier looks for by  *)
(* changing one of its parts at a time.                                    *)
(***************************************************************************)
\* is the pot of a row locked
IsLockedPot(potId) ==
    \E p \in pots : p.id = potId /\ p.userId = "user" /\ p.isLocked

\* the kind of a row, the part of its status before the "_"
Kind(dep) ==
    CASE dep.status \in {"SOL_PENDING", "SOL_CONFIRMED"} -> "SOL"
      [] dep.status \in {"USDC_PENDING", "USDC_CONFIRMED"} -> "USDC"
      [] dep.status \in {"ALLOC_PENDING", "ALLOC_CONFIRMED"} -> "ALLOC"
      [] dep.status \in {"WITHDRAW_PENDING", "WITHDRAW_CONFIRMED"} -> "WITHDRAW"
      [] OTHER -> ""

\* the instruction name the confirm route of a row's kind looks for
ExpectedIxName(dep, locked) ==
    CASE Kind(dep) = "SOL" -> "deposit"
      [] Kind(dep) = "USDC" -> "deposit_usdc"
      [] Kind(dep) = "ALLOC" -> "deposit_usdc"
      [] Kind(dep) = "WITHDRAW" -> IF locked THEN "withdraw_with_fee" ELSE "withdraw"
      [] OTHER -> ""

\* the amount expected for a row: the quote of its pending status, which is
\* also its amountLamports; for an allocation the USDC part of its total
ExpectedLamports(dep) ==
    IF Kind(dep) = "ALLOC" THEN AllocUsdcBase(dep.amountLamports)
    ELSE IF IsPending(dep) THEN dep.quote
    ELSE dep.amountLamports

\* the fee expected for a row: calcFeeLamports for a locked pot's withdrawal,
\* no fee field otherwise
ExpectedFee(dep, locked) ==
    IF Kind(dep) = "WITHDRAW" /\ locked
    THEN BigInt(calcFeeLamports(ExpectedLamports(dep)))
    ELSE Null

\* an escrow-shaped instruction with each part given; cut is the length the
\* data is truncated to (0: not truncated)
CraftedIx(programId, ixName, vaultPot, digestPot, lamports, fee, cut) ==
    LET data == EscrowData(anchorDiscriminator(ixName), potIdToHashBytes(digestPot),
                           BigInt(lamports), fee)
    IN  Instruction(programId,
                    <<PublicKey("user"), deriveVaultPdaFromPotId("user", vaultPot).pda,
                      PublicKey("system")>>,
                    IF cut = 0 THEN data ELSE SubSeq(data, 1, cut))

OtherPot(potId) ==
    IF potId = "pot-a" THEN "pot-b" ELSE "pot-a"

OtherIxName(ixName) ==
    CASE ixName = "deposit" -> "withdraw"
      [] ixName = "deposit_usdc" -> "deposit"
      [] ixName = "withdraw" -> "withdraw_with_fee"
      [] ixName = "withdraw_with_fee" -> "withdraw"

\* the instruction the verifier looks for
IdealIx(dep, locked) ==
    CraftedIx(escrowProgramId, ExpectedIxName(dep, locked), dep.potId, dep.potId,
              ExpectedLamports(dep), ExpectedFee(dep, locked), 0)

\* the fee fields tried: none, zero, the locked-pot fee, one lamport more
FeeInputs(dep) ==
    {Null, BigInt(0), BigInt(calcFeeLamports(dep.quote)),
     BigInt(calcFeeLamports(dep.quote) + 1)}

\* the ideal instruction with one part changed
Deviations(dep, locked) ==
    LET n == ExpectedIxName(dep, locked)
        p == dep.potId
        l == ExpectedLamports(dep)
        f == ExpectedFee(dep, locked)
    IN  {CraftedIx(otherProgramId, n, p, p, l, f, 0),
         CraftedIx(escrowProgramId, OtherIxName(n), p, p, l, f, 0),
         CraftedIx(escrowProgramId, n, OtherPot(p), p, l, f, 0),
         CraftedIx(escrowProgramId, n, p, OtherPot(p), l, f, 0),
         CraftedIx(escrowProgramId, n, p, p, l + 1, f, 0),
         CraftedIx(escrowProgramId, n, p, p, l, BigInt(0), 7),
         CraftedIx(escrowProgramId, n, p, p, l, BigInt(0), 47),
         CraftedIx(escrowProgramId, n, p, p, l, BigInt(0), 55)}
        \cup {CraftedIx(escrowProgramId, n, p, p, l, fee, 0) : fee \in FeeInputs(dep)}

\* the instruction lists of the second transaction
CraftedInstructions(dep, locked) ==
    LET ideal == IdealIx(dep, locked)
        single == {ideal} \cup Deviations(dep, locked)
    IN  {<<>>}
        \cup {PreparedInstructions(dep, v) : v \in BOOLEAN}
        \cup {<<x>> : x \in single}
        \cup {<<InitPotVaultIx("user", dep.potId), ideal>>}
        \cup {<<x, ideal>> : x \in single}
        \cup {<<ideal, x>> : x \in single}

\* the rows a prepare route leaves pending
PendingRows ==
    {Deposit("user", "pot-a", Whole(MIN_DEPOSIT_USD), 10, "SOL_PENDING", 10, NoSig),
     Deposit("user", "pot-b", Whole(MIN_DEPOSIT_USD), 10, "SOL_PENDING", 10, NoSig),
     Deposit("user", "pot-a", Whole(MIN_DEPOSIT_USD), MIN_DEPOSIT_USD * USDC_BASE_PER_USD,
             "USDC_PENDING", MIN_DEPOSIT_USD * USDC_BASE_PER_USD, NoSig),
     Deposit("user", "pot-a", Whole(MIN_DEPOSIT_USD), MIN_DEPOSIT_USD * USDC_BASE_PER_USD,
             "ALLOC_PENDING", 0, NoSig)}
    \cup {Deposit("user", potId, Whole(-usd), QuoteLamports(usd, price),
                  "WITHDRAW_PENDING", QuoteLamports(usd, price), NoSig) :
              potId \in {"pot-a", "pot-b"}, usd \in UsdInputs, price \in SolPriceInputs}

VerifyInit ==
    /\ ClampIdle
    /\ CodecIdle
    /\ GovIdle
    /\ SignerIdle
    /\ RaceIdle
    /\ observed = TRUE
    /\ last = NoCall
    /\ pots = {Pot(PotIds[n], "user", PotLocks[n]) : n \in 1..Len(PotIds)}
    /\ \E dep \in PendingRows :
           LET lamports == QuoteLamports(MIN_DEPOSIT_USD, LAMPORTS_PER_SOL \div 2)
               locked == \E n \in 1..Len(PotIds) : PotIds[n] = dep.potId /\ PotLocks[n]
           IN  /\ deposits = <<Deposit("user", dep.potId, Whole(MIN_DEPOSIT_USD), lamports,
                                       "SOL_CONFIRMED", 0, 1), dep>>
               /\ luloOps = <<LuloOp(dep.potId, "user", 1, "ALLOCATE", lamports, "PENDING")>>
                            \o (IF dep.status = "ALLOC_PENDING"
                                THEN <<LuloOp(dep.potId, "user", 2, "ALLOCATE",
                                              AllocUsdcBase(dep.amountLamports),
                                              "TX_READY")>>
                                ELSE <<>>)
               /\ \E err \in BOOLEAN, ixs \in CraftedInstructions(dep, locked) :
                      chain = <<Landed(FALSE, buildEscrowTx("user", dep.potId, lamports,
                                                            "deposit", FeeUndefined, FALSE)),
                                Landed(err, ixs)>>

\* one confirm call is made, on either row, with any signature
OneSolDepositConfirm ==
    last = NoCall /\ ConfirmSolDeposit

OneUsdcDepositConfirm ==
    last = NoCall /\ ConfirmUsdcDeposit

OneAllocateConfirm ==
    last = NoCall /\ ConfirmAllocate

OneWithdrawalConfirm ==
    last = NoCall /\ ConfirmWithdrawal

NextVerify ==
    \/ OneSolDepositConfirm
    \/ OneUsdcDepositConfirm
    \/ OneAllocateConfirm
    \/ OneWithdrawalConfirm

SpecVerify ==
    VerifyInit /\ [][NextVerify]_vars

(***************************************************************************)
(* Transaction verification: what the properties of the confirm routes     *)
(* speak about.                                                            *)
(***************************************************************************)
IsConfirmed(dep) ==
    dep.status \in {"SOL_CONFIRMED", "USDC_CONFIRMED", "WITHDRAW_CONFIRMED",
                    "ALLOC_CONFIRMED"}

\* the instructions of a transaction that are of the escrow program, start
\* with the discriminator expected for the row and list the row's vault
MatchingIxs(tx, dep) ==
    LET locked == IsLockedPot(dep.potId)
        disc == anchorDiscriminator(ExpectedIxName(dep, locked))
        pda == derivePotVaultPda(dep.userId, potIdToHashBytes(dep.potId))
    IN  SelectSeq(tx.instructions,
                  LAMBDA ix : /\ ix.programId = escrowProgramId
                              /\ Len(ix.data) >= 8
                              /\ SubSeq(ix.data, 1, 8) = disc
                              /\ pda \in {ix.keys[i] : i \in 1..Len(ix.keys)})

\* the digest and the amount of an instruction are those expected for the row
CarriesDigestAndAmount(ix, dep) ==
    LET parsed == parseEscrowInstructionData(ix.data)
    IN  /\ parsed.ok
        /\ parsed.potHash = potIdToHashBytes(dep.potId)
        /\ parsed.lamports = BigInt(ExpectedLamports(dep))

\* digest, amount and fee of an instruction are those expected for the row
CarriesExpected(ix, dep) ==
    /\ CarriesDigestAndAmount(ix, dep)
    /\ parseEscrowInstructionData(ix.data).feeLamports
           = ExpectedFee(dep, IsLockedPot(dep.potId))

\* the transaction succeeded and holds exactly one matching instruction, which
\* carries the expected digest, amount and fee
Verified(tx, dep) ==
    /\ tx.found
    /\ ~tx.err
    /\ Len(MatchingIxs(tx, dep)) = 1
    /\ CarriesExpected(MatchingIxs(tx, dep)[1], dep)

\* the last call was a confirm call that fetched a transaction the cluster knows
Fetched ==
    /\ last.route # ""
    /\ last.fetched
    /\ last.tx.found

\* the row the last call was about, as it is now
Row ==
    deposits[last.id]

\* C4: a row has a confirmed status only if the transaction of its txSig
\* succeeded and holds exactly one instruction of the escrow program with the
\* expected discriminator and the row's vault, carrying the expected digest,
\* amount and fee.
C4_ConfirmedOnlyIfVerified ==
    \A i \in 1..Len(deposits) :
        IsConfirmed(deposits[i]) =>
            Verified(getTransaction(deposits[i].txSig), deposits[i])

VerifyingRoutes ==
    {"sol", "usdc", "withdraw"}

\* C6 as stated: whenever the fetched transaction holds two or more matching
\* instructions, the deposit and withdrawal confirm calls reply
\* escrow_ix_multiple.
C6_AmbiguousAlways ==
    (Fetched /\ last.route \in VerifyingRoutes /\ Len(MatchingIxs(last.tx, last.before)) >= 2)
        => last.reply = "escrow_ix_multiple"

\* C6 amended: when the fetched transaction succeeded and holds two or more
\* matching instructions, the SOL deposit, USDC deposit and withdrawal confirm
\* calls reply escrow_ix_multiple and leave the row as it was, also when one of
\* the instructions carries the expected digest, amount and fee.
C6_AmbiguousWhenSucceeded ==
    (/\ Fetched
     /\ last.route \in VerifyingRoutes
     /\ ~last.tx.err
     /\ Len(MatchingIxs(last.tx, last.before)) >= 2)
        => (last.reply = "escrow_ix_multiple" /\ Row = last.before)

C6_Witness ==
    /\ Fetched
    /\ last.route = "sol"
    /\ last.reply = "escrow_ix_multiple"
    /\ Len(MatchingIxs(last.tx, last.before)) = 2
    /\ CarriesExpected(MatchingIxs(last.tx, last.before)[1], last.before)
    /\ ~CarriesExpected(MatchingIxs(last.tx, last.before)[2], last.before)

\* C7: a confirm call whose fetched transaction failed replies tx_failed and
\* leaves the row as it was, whatever the instructions of the transaction.
C7_FailedIsRejected ==
    (Fetched /\ last.tx.err) => (last.reply = "tx_failed" /\ Row = last.before)

C7_Witness ==
    /\ Fetched
    /\ last.tx.err
    /\ last.route = "withdraw"
    /\ last.reply = "tx_failed"
    /\ Len(MatchingIxs(last.tx, last.before)) = 1
    /\ CarriesExpected(MatchingIxs(last.tx, last.before)[1], last.before)

\* the fee field of an instruction, Null when its data ends before byte 56
FeeField(ix) ==
    parseEscrowInstructionData(ix.data).feeLamports

\* a withdrawal confirm call on a pending row whose fetched transaction
\* succeeded and holds exactly one matching instruction with the expected
\* digest and amount
WithdrawalUpToFee ==
    /\ Fetched
    /\ last.route = "withdraw"
    /\ IsPending(last.before)
    /\ ~last.tx.err
    /\ Len(MatchingIxs(last.tx, last.before)) = 1
    /\ CarriesDigestAndAmount(MatchingIxs(last.tx, last.before)[1], last.before)

\* the matching instruction of such a call
Matched ==
    MatchingIxs(last.tx, last.before)[1]

\* C8 as stated: for a pot that is not locked, a matched instruction with a fee
\* field of any value, 0 included, is refused with escrow_unexpected_fee and the
\* withdrawal is not confirmed.
C8_AnyFeeFieldRejected ==
    (WithdrawalUpToFee /\ ~IsLockedPot(last.before.potId) /\ FeeField(Matched) # Null)
        => (last.reply = "escrow_unexpected_fee" /\ Row = last.before)

\* C8 amended: for a pot that is not locked, a matched instruction with a fee
\* field greater than 0 is refused with escrow_unexpected_fee and the withdrawal
\* is not confirmed; with no fee field or a fee field of 0 it is accepted and
\* the withdrawal is confirmed.
C8_PositiveFeeRejected ==
    (WithdrawalUpToFee /\ ~IsLockedPot(last.before.potId)) =>
        IF FeeField(Matched) # Null /\ FeeField(Matched) # BigInt(0)
        THEN last.reply = "escrow_unexpected_fee" /\ Row = last.before
        ELSE last.reply = "ok" /\ Row.status = "WITHDRAW_CONFIRMED"

C8_Witness ==
    /\ WithdrawalUpToFee
    /\ ~IsLockedPot(last.before.potId)
    /\ FeeField(Matched) = BigInt(1)
    /\ last.reply = "escrow_unexpected_fee"
    /\ Row.status = "WITHDRAW_PENDING"

\* the matched instruction of a locked pot's withdrawal has no fee field
LockedWithoutFeeField ==
    /\ WithdrawalUpToFee
    /\ IsLockedPot(last.before.potId)
    /\ Len(Matched.data) \in 48..55
    /\ FeeField(Matched) = Null

\* C9 as stated: for a locked pot, a matched instruction of 48 to 55 bytes (no
\* fee field) is refused with escrow_unexpected_fee and the withdrawal is not
\* confirmed.
C9_NoFeeFieldUnexpectedFee ==
    LockedWithoutFeeField =>
        (last.reply = "escrow_unexpected_fee" /\ Row = last.before)

\* C9 amended: for a locked pot, a matched instruction of 48 to 55 bytes (no
\* fee field) is refused with escrow_fee_mismatch and the withdrawal is not
\* confirmed.
C9_NoFeeFieldFeeMismatch ==
    LockedWithoutFeeField =>
        (last.reply = "escrow_fee_mismatch" /\ Row = last.before)

C9_Witness ==
    /\ LockedWithoutFeeField
    /\ Len(Matched.data) = 55
    /\ last.reply = "escrow_fee_mismatch"
    /\ Row.status = "WITHDRAW_PENDING"

\* C11: parseEscrowInstructionData throws escrow_ix_data_too_short for every
\* buffer shorter than 48 bytes; for 48 to 55 bytes it succeeds with the fee
\* absent; from 56 bytes on it succeeds and the fee is the little-endian u64 of
\* bytes 48..55 (writing the fee back as u64le gives exactly those bytes).
C11_ParseByLength ==
    codecOut # NoParse =>
        /\ Len(codecRaw) < 48 => codecOut = TooShort
        /\ Len(codecRaw) \in 48..55 => codecOut.ok /\ codecOut.feeLamports = Null
        /\ Len(codecRaw) >= 56 =>
               /\ codecOut.ok
               /\ codecOut.feeLamports # Null
               /\ u64le(codecOut.feeLamports) = SubSeq(codecRaw, 49, 56)

\* a 56-byte buffer was parsed and its fee read
C11_Witness ==
    /\ codecIn = NoOp
    /\ Len(codecRaw) = 56
    /\ codecOut.ok
    /\ codecOut.feeLamports = <<LimbBase - 1, 1, 256, LimbBase - 1>>

\* C10: codec round trip: parseEscrowInstructionData applied to
\* discriminator ++ digest ++ u64le(amount) [++ u64le(fee)] returns exactly that
\* discriminator, digest, amount and fee, with the fee absent when none was encoded.
C10_CodecRoundTrip ==
    codecOut # NoParse =>
        /\ codecOut.ok
        /\ codecOut.discriminator = codecIn.discriminator
        /\ codecOut.potHash = codecIn.potHash
        /\ codecOut.lamports = codecIn.lamports
        /\ codecOut.feeLamports = codecIn.feeLamports

\* C10 witness: the amount 2^64-1 with an encoded fee of 0 was parsed back, the
\* fee being returned as the number 0 and not as absent
C10_Witness ==
    /\ codecOut # NoParse
    /\ Len(codecRaw) = 56
    /\ codecOut.lamports = <<LimbBase - 1, LimbBase - 1, LimbBase - 1, LimbBase - 1>>
    /\ codecOut.feeLamports = <<0, 0, 0, 0>>


(***************************************************************************)
(* Claims about the policy clamp (checked under SpecClamp).                *)
(***************************************************************************)
FloorBps(tier) ==
    100 * POD_RULES[tier].luloFloorPct

\* C1: for every tier and every proposed weight vector, the four basis-point
\* values returned by applyPolicyClamp are non-negative integers that sum to
\* exactly 10,000.
C1_BpsSumExact ==
    clamped # NoPolicy =>
        LET b == clamped.targetAllocationsBps
        IN /\ b.usdc \in Nat /\ b.btc \in Nat /\ b.eth \in Nat /\ b.sol \in Nat
           /\ b.usdc + b.btc + b.eth + b.sol = 10000

\* C1 witness: a proposal with a negative entry whose clamped weights are not
\* whole basis points, so that the largest-remainder step distributed the rest
C1_Witness ==
    /\ clamped # NoPolicy
    /\ proposal.weightsPct.usdc = Whole(-MaxWeight)
    /\ clamped.targetAllocationsBps.btc = 1667
    /\ clamped.targetAllocationsBps.sol = 1666

\* C2: for every tier and input, usdc bps >= 100 x the tier's stable floor and
\* btc, eth, sol bps <= 100 x their tier maxima, after floor rescaling and after
\* the rounding to basis points.
C2_FloorAndMaxima ==
    clamped # NoPolicy =>
        LET b == clamped.targetAllocationsBps
            rules == POD_RULES[clamped.podTier]
        IN /\ b.usdc >= 100 * rules.luloFloorPct
           /\ b.btc <= 100 * rules.btc.max
           /\ b.eth <= 100 * rules.eth.max
           /\ b.sol <= 100 * rules.sol.max

\* C2 witness: a HIGH-tier proposal with no stable weight: the volatile weights
\* were capped, the stable weight raised to the floor and the rest rescaled
C2_Witness ==
    /\ clamped # NoPolicy
    /\ clamped.podTier = "HIGH"
    /\ proposal.weightsPct.usdc = Whole(0)
    /\ clamped.targetAllocationsBps.usdc = FloorBps("HIGH")
    /\ clamped.targetAllocationsBps.btc % 100 # 0

\* C3: for every tier, weights and requested yield percentage, tier floor bps
\* <= usdcInLuloBps <= targetAllocationsBps.usdc; when the final stable
\* allocation equals the floor the yield bps equals the stable bps.
C3_YieldWithinStable ==
    clamped # NoPolicy =>
        LET b == clamped.targetAllocationsBps
        IN /\ FloorBps(clamped.podTier) <= clamped.usdcInLuloBps
           /\ clamped.usdcInLuloBps <= b.usdc
           /\ (b.usdc = FloorBps(clamped.podTier) => clamped.usdcInLuloBps = b.usdc)

\* C3 witness: a requested yield below the floor while the stable allocation
\* is strictly above the floor: the yield was raised to the floor
C3_Witness ==
    /\ clamped # NoPolicy
    /\ proposal.usdcInLuloPct = Whole(-25)
    /\ clamped.targetAllocationsBps.usdc > FloorBps(clamped.podTier)
    /\ clamped.usdcInLuloBps = FloorBps(clamped.podTier)

(***************************************************************************)
(* Governance workflow: claims.                                            *)
(***************************************************************************)
\* the iteration reached the signer: POST /update_policy was sent
SignerCalled ==
    run.iteration.signerBody # NoBody

\* C13: the risk_state sent to the signer is the maximum, under
\* NORMAL < CAUTION < RISK_OFF, of the agent's proposed risk state and the
\* divergence-derived risk: never below the divergence-derived risk, never below
\* a proposed risk that is one of the three states, and applyPolicyClamp returns
\* the merged risk unchanged.
C13_RiskIsMaximum ==
    SignerCalled =>
        LET it == run.iteration
            sent == rank(it.signerBody.risk_state)
            proposed == rank(it.agent.proposed_risk_state)
            derived == rank(it.divergenceRisk)
        IN /\ derived >= 0
           /\ sent >= derived
           /\ proposed >= 0 => sent = Max(proposed, derived)
           /\ sent >= rank(it.clampInput.riskState)

\* the agent proposed NORMAL, the divergence gives RISK_OFF, RISK_OFF was sent
C13_Witness ==
    /\ SignerCalled
    /\ run.iteration.agent.proposed_risk_state = "NORMAL"
    /\ run.iteration.divergenceRisk = "RISK_OFF"
    /\ run.iteration.signerBody.risk_state = "RISK_OFF"

\* C14: whenever the signer is called for a pod, the agent has answered and the
\* allocation bps, yield bps and risk state in the request are those returned by
\* applyPolicyClamp for the pod's tier and the agent's proposed weights, so the
\* request respects the tier's floor and maxima whatever the agent proposed.
C14_SignerGetsClampedPolicy ==
    SignerCalled =>
        LET it == run.iteration
            body == it.signerBody
            policy == applyPolicyClamp(it.clampInput)
            rules == POD_RULES[normalizeTier(it.pod_tier)]
        IN /\ it.agent # NoAgent
           /\ it.clampInput.podTier = it.pod_tier
           /\ it.clampInput.weightsPct = it.agent.proposed_weights_pct
           /\ body.target_allocations_bps = policy.targetAllocationsBps
           /\ body.usdc_in_lulo_bps = policy.usdcInLuloBps
           /\ body.risk_state = policy.riskState
           /\ body.target_allocations_bps.usdc >= 100 * rules.luloFloorPct
           /\ body.target_allocations_bps.btc <= 100 * rules.btc.max
           /\ body.target_allocations_bps.eth <= 100 * rules.eth.max
           /\ body.target_allocations_bps.sol <= 100 * rules.sol.max

\* a malformed proposal (100% BTC, NaN, undefined) for a LOW pod was clamped to
\* 100% USDC before it reached the signer
C14_Witness ==
    /\ SignerCalled
    /\ run.iteration.pod_tier = "LOW"
    /\ run.iteration.agent.proposed_weights_pct.btc = Whole(100)
    /\ run.iteration.signerBody.target_allocations_bps.btc <= 2000
    /\ run.iteration.signerBody.target_allocations_bps.usdc >= 7000

\* the pods for which POST /update_policy was sent during the run
SignerCalledFor ==
    {run.signerCalls[n] : n \in 1..Len(run.signerCalls)}

\* C15: when processing of one pod fails, every other pod of the run is still
\* processed through clamp and signer submission and the run returns the
\* results of the pods that succeeded.
C15_FailureIsIsolated ==
    (run.pc \in {"returned", "thrown"} /\ run.failedAt \notin {"", "pods"}) =>
        /\ \A i \in 1..Len(run.pods) : i # run.i => i \in SignerCalledFor
        /\ run.pc = "returned"

\* spot > 20 x oracle, as numbers
AboveScale(spot, oracle) ==
    CASE isFinite(spot) /\ isFinite(oracle) -> spot.n * oracle.d > 20 * oracle.n * spot.d
      [] isFinite(spot) /\ oracle = NegInf -> TRUE
      [] OTHER -> FALSE

\* spot < oracle / 20, as numbers
BelowScale(spot, oracle) ==
    CASE isFinite(spot) /\ isFinite(oracle) -> 20 * spot.n * oracle.d < oracle.n * spot.d
      [] isFinite(spot) /\ oracle = PosInf -> TRUE
      [] OTHER -> FALSE

\* request r is inside submitUpdateTx: waiting for getLatestBlockhash,
\* sendRawTransaction or confirmTransaction
InSubmitUpdateTx(r) ==
    requests[r].pc \in {"getLatestBlockhash", "sendRawTransaction", "confirmTransaction"}

\* C16: a request to /update_policy whose submission threw ends in the simulated
\* fallback (reply simulated, snapshot stored) only if
\* SIGNER_ALLOW_OFFCHAIN_POLICY is true and the error is the missing-instruction
\* error; with the fallback disabled, or for any other error, the reply is
\* HTTP 500 update_policy_failed and nothing is stored for it.
C16_FallbackOnlyForMissingInstruction ==
    /\ \A r \in 1..Len(requests) :
          /\ requests[r].reply.simulated =>
                /\ allowOffchainPolicyFallback
                /\ isMissingInstructionError(requests[r].err)
          /\ (/\ requests[r].pc = "done"
              /\ requests[r].err # NoError
              /\ ~(allowOffchainPolicyFallback /\ isMissingInstructionError(requests[r].err)))
                => requests[r].reply = Reply(500, "update_policy_failed", FALSE)
    /\ \A s \in shadowPolicyStore :
          /\ allowOffchainPolicyFallback
          /\ \E r \in 1..Len(requests) :
                /\ requests[r].reply.simulated
                /\ s = ShadowPolicy(requests[r].body, requests[r].targetBps)

\* C16 witness: with the fallback allowed, one request ended in the simulated
\* fallback after "custom program error: 0x65" and another one ended in
\* HTTP 500 after a submission error that is not the missing-instruction error.
C16_Witness ==
    /\ allowOffchainPolicyFallback
    /\ \E r1, r2 \in 1..Len(requests) :
          /\ requests[r1].reply.simulated
          /\ includes(requests[r1].err, "custom program error: 0x65")
          /\ requests[r2].err # NoError
          /\ ~isMissingInstructionError(requests[r2].err)
          /\ requests[r2].reply.code = 500
    /\ shadowPolicyStore # {}

\* C17: two requests to /update_policy for the same pod_id are never inside
\* submitUpdateTx at the same time.
C17_SamePodSerialised ==
    \A r1, r2 \in 1..Len(requests) :
       (r1 # r2 /\ requests[r1].body.pod_id = requests[r2].body.pod_id)
          => ~(InSubmitUpdateTx(r1) /\ InSubmitUpdateTx(r2))

\* four integers in 0..10000 that sum to 10000, with usdcInLuloBps <= usdc
ValidAllocation(bps, usdcInLuloBps) ==
    /\ bps # NoAllocation
    /\ \A x \in {bps.usdc, bps.btc, bps.eth, bps.sol} :
          isFinite(x) /\ x.d = 1 /\ x.n \in 0..10000
    /\ bps.usdc.n + bps.btc.n + bps.eth.n + bps.sol.n = 10000
    /\ RLe(usdcInLuloBps, bps.usdc)

\* what the signer submitted or stored is a valid allocation
OnlyValidSubmitted ==
    /\ \A r \in 1..Len(requests) :
          requests[r].submitted =>
             ValidAllocation(requests[r].targetBps, requests[r].body.usdc_in_lulo_bps)
    /\ \A s \in shadowPolicyStore :
          ValidAllocation(s.target_allocations_bps, s.usdc_in_lulo_bps)

\* C18 (as stated): the signer submits or stores only valid allocations, and
\* every request whose allocation is not valid is rejected with HTTP 400 before
\* any submission.
C18_InvalidRejectedWith400 ==
    /\ OnlyValidSubmitted
    /\ \A r \in 1..Len(requests) :
          ~ValidAllocation(TargetBps(requests[r].body), requests[r].body.usdc_in_lulo_bps)
             => /\ ~requests[r].submitted
                /\ requests[r].reply.code = 400

\* C18 (amended): the signer submits or stores only valid allocations; a request
\* whose allocation is not valid never reaches submission: when its body
\* passes the schema it is rejected with HTTP 400, and when a field is not a
\* number in range the schema throws and no HTTP 400 is sent.
C18_InvalidNeverSubmitted ==
    /\ OnlyValidSubmitted
    /\ \A r \in 1..Len(requests) :
          ~ValidAllocation(TargetBps(requests[r].body), requests[r].body.usdc_in_lulo_bps)
             => /\ ~requests[r].submitted
                /\ requests[r].pc = "done"
                /\ IF payloadSchema(requests[r].body)
                   THEN requests[r].reply.code = 400
                   ELSE requests[r].reply = Reply(500, "ZodError", FALSE)

\* C18 witness: a request in percent whose converted basis points sum to 20000
\* was rejected with HTTP 400 invalid_target_sum, and a request whose basis
\* points are 10001, 0, 0, -1 ended in the schema's exception.
C18_Witness ==
    \E r1, r2 \in 1..Len(requests) :
       /\ requests[r1].body.target_allocations_bps = NoAllocation
       /\ requests[r1].reply = Reply(400, "invalid_target_sum", FALSE)
       /\ requests[r2].body.target_allocations_bps
             = Alloc(Whole(10001), Whole(0), Whole(0), Whole(-1))
       /\ requests[r2].reply = Reply(500, "ZodError", FALSE)


\* C19: for a spot quote that is non-finite, <= 0, above 20 x the oracle value or
\* below the oracle value / 20, sanitizeUsdcPerAssetSpot returns the oracle
\* value and logs a warning, and the divergence computed from its result is 0;
\* a spot within [oracle / 20, 20 x oracle] is returned unchanged.
C19_MalformedSpotFallsBack ==
    assessed.done =>
        /\ (\/ ~isFinite(assessed.spot)
            \/ assessed.spot.n <= 0
            \/ AboveScale(assessed.spot, assessed.oracle)
            \/ BelowScale(assessed.spot, assessed.oracle))
           => /\ assessed.value = assessed.oracle
              /\ assessed.warned
              /\ assessed.divergence = Whole(0)
        /\ (/\ isFinite(assessed.spot)
            /\ isFinite(assessed.oracle)
            /\ ~AboveScale(assessed.spot, assessed.oracle)
            /\ ~BelowScale(assessed.spot, assessed.oracle))
           => assessed.value = assessed.spot

\* spot 0 against oracle 50000: the oracle value is used and the divergence is 0
C19_Witness ==
    /\ assessed.done
    /\ assessed.spot = Whole(0)
    /\ assessed.oracle = Whole(50000)
    /\ assessed.value = Whole(50000)
    /\ assessed.warned
    /\ assessed.divergence = Whole(0)

\* C20: for tier LOW and the proposed weights 10/50/20/20, applyPolicyClamp
\* first caps the volatile weights at 20/15/15 (USDC 50), then raises USDC to
\* the 70% floor and rescales the volatile weights to 12/9/9, and returns
\* 7000/1200/900/900 basis points.
C20_LowTierScenario ==
    (/\ proposal.podTier = "LOW"
     /\ proposal.weightsPct = ScenarioWeights
     /\ clamped # NoPolicy)
       => LET rules == POD_RULES["LOW"]
              capped == recomputeUsdcFromCrypto(
                           boundCrypto(normalizeTo100(proposal.weightsPct), rules))
              floored == enforceUsdcMinimum(capped, rules.luloFloorPct)
          IN /\ capped = Alloc(Whole(50), Whole(20), Whole(15), Whole(15))
             /\ floored = Alloc(Whole(70), Whole(12), Whole(9), Whole(9))
             /\ FinalWeights(proposal, rules) = floored
             /\ clamped.targetAllocationsBps = Alloc(7000, 1200, 900, 900)
             /\ clamped.podTier = "LOW"

\* C20 witness: applyPolicyClamp has returned for tier LOW and the scenario weights.
C20_Witness ==
    /\ proposal.podTier = "LOW"
    /\ proposal.weightsPct = ScenarioWeights
    /\ clamped.targetAllocationsBps.usdc = 7000

\* the sum of the four proposed weights, an absent weight counting as 0
ProposedSum ==
    RAdd(RAdd(RAdd(NullishOr0(proposal.weightsPct.usdc), NullishOr0(proposal.weightsPct.btc)),
              NullishOr0(proposal.weightsPct.eth)),
         NullishOr0(proposal.weightsPct.sol))

\* the four proposed weights are numbers or absent
ProposedFinite ==
    \A w \in {proposal.weightsPct.usdc, proposal.weightsPct.btc,
               proposal.weightsPct.eth, proposal.weightsPct.sol} :
       isFinite(NullishOr0(w))

\* C21: when the four proposed weights sum to <= 0, applyPolicyClamp returns
\* 10000 basis points of USDC and 0 of BTC, ETH and SOL, for every tier.
C21_NonPositiveSumFallsBack ==
    (/\ clamped # NoPolicy
     /\ ProposedFinite
     /\ ProposedSum.n <= 0)
       => clamped.targetAllocationsBps = Alloc(10000, 0, 0, 0)

\* C30: the allocation of applyPolicyClamp does not depend on the risk state:
\* a call that differs from the recorded one only in riskState returns the
\* same targetAllocationsBps and usdcInLuloBps.
C30_AllocationIgnoresRisk ==
    clamped # NoPolicy =>
       \A r \in RiskInputs \cup {"risk_off", "HIGH"} :
          LET other == applyPolicyClamp([proposal EXCEPT !.riskState = r])
          IN /\ other.targetAllocationsBps = clamped.targetAllocationsBps
             /\ other.usdcInLuloBps = clamped.usdcInLuloBps

\* C30 witness: applyPolicyClamp has returned under RISK_OFF for tier HIGH with
\* a volatile allocation left in the result.
C30_Witness ==
    /\ clamped # NoPolicy
    /\ clamped.riskState = "RISK_OFF"
    /\ clamped.podTier = "HIGH"
    /\ clamped.targetAllocationsBps.btc > 0
    /\ clamped.usdcInLuloBps > 0

\* request r reaches its reply in this step
Replies(r) ==
    /\ requests'[r].pc = "done"
    /\ (r > Len(requests) \/ requests[r].pc # "done")

\* C29: the shadow policy store changes only in a step in which an
\* /update_policy request ends in the simulated fallback, and then only the
\* entry of that request's pod_id, which becomes the request's snapshot; a step
\* in which a request is answered 400, 500 or confirmed leaves the store
\* unchanged, so GET /policy/:podId answers with the last snapshot stored for
\* the pod, or 404.
C29_StoreChangesOnlyInFallback ==
    [][/\ \A pod \in {"pod-a", "pod-b", ""} :
             getPolicy(pod)' # getPolicy(pod) =>
                \E r \in 1..Len(requests) :
                   /\ Replies(r)
                   /\ requests'[r].reply = Reply(200, "", TRUE)
                   /\ requests[r].body.pod_id = pod
                   /\ getPolicy(pod)' =
                         [code |-> 200,
                          policy |-> ShadowPolicy(requests[r].body, requests[r].targetBps)]
       /\ \A r \in 1..Len(requests') :
             (Replies(r) /\ ~requests'[r].reply.simulated) =>
                shadowPolicyStore' = shadowPolicyStore
       /\ \A s \in shadowPolicyStore' : getPolicy(s.pod_id)' = [code |-> 200, policy |-> s]
      ]_vars

\* C29 witness: a request for pod-a ended in the simulated fallback and its
\* snapshot is what GET /policy/pod-a returns, another request was answered
\* with 400 or 500, and GET /policy/pod-b answers 404.
C29_Witness ==
    /\ \E r1, r2 \in 1..Len(requests) :
          /\ requests[r1].reply.simulated
          /\ getPolicy("pod-a") =
                [code |-> 200,
                 policy |-> ShadowPolicy(requests[r1].body, requests[r1].targetBps)]
          /\ requests[r2].reply.code \in {400, 500}
    /\ getPolicy("pod-b").code = 404

\* the signer call for the pod has returned
SignerReturnedFor(podId) ==
    \E n \in 1..Len(run.signerReturns) : run.signerReturns[n] = podId

\* the audit entry is written after the signer has answered for its pod and is
\* keyed by the pod and the run
AuditFollowsSigner ==
    \A n \in 1..Len(run.audits) :
       /\ SignerReturnedFor(run.audits[n].pod_id)
       /\ run.audits[n].run_id = run.runId
       /\ \A m \in 1..Len(run.audits) : run.audits[m].pod_id = run.audits[n].pod_id => m = n

\* C22: every audit entry is written after the signer call for its pod has
\* returned, is keyed by the pod's id and the run id, and records the signature
\* or the simulation flag the signer returned; a pod whose signer call failed
\* has no audit entry.
C22_AuditRecordsSignerOutcome ==
    /\ AuditFollowsSigner
    /\ \A n \in 1..Len(run.audits) :
          \/ /\ "signer_signature" \in DOMAIN run.audits[n]
             /\ run.audits[n].signer_signature = run.signerRes.signature
          \/ /\ "simulated" \in DOMAIN run.audits[n]
             /\ run.audits[n].simulated = run.signerRes.simulated

\* C23: a SOL deposit, USDC deposit or withdrawal confirm call that ends in a
\* rejection changes no row: the record keeps its status and txSig, and no
\* LuloOp and no fee record is created.
C23_RejectionChangesNothing ==
    [][(/\ last'.route \in {"sol", "usdc", "withdraw"}
        /\ last'.reply # "ok")
          => /\ deposits' = deposits
             /\ luloOps' = luloOps
             /\ pots' = pots]_vars

\* C23 witness: a withdrawal confirm call was rejected with a fee mismatch after
\* the transaction was fetched, and the row is still pending without a txSig.
C23_Witness ==
    /\ last.route = "withdraw"
    /\ last.reply = "escrow_fee_mismatch"
    /\ last.fetched
    /\ deposits[last.id].status = "WITHDRAW_PENDING"
    /\ deposits[last.id].txSig = NoSig
    /\ Len(deposits) = 2

\* f is floor(a x LOCKED_WITHDRAW_FEE_BPS / 10000)
IsFloorFee(f, a) ==
    /\ f * 10000 <= a * LOCKED_WITHDRAW_FEE_BPS
    /\ a * LOCKED_WITHDRAW_FEE_BPS < (f + 1) * 10000

\* the fee field of the escrow instruction the withdrawal prepare route builds
BuiltFee(dep) ==
    LET ixs == PreparedInstructions(dep, TRUE)
    IN FeeField(ixs[Len(ixs)])

\* the pending withdrawals of locked pots
LockedPendingWithdrawals ==
    {i \in 1..Len(deposits) :
        deposits[i].status = "WITHDRAW_PENDING" /\ IsLockedPot(deposits[i].potId)}

\* for a locked pot the verifier accepts a matched instruction only with the
\* fee floor(a x bps / 10000) and refuses every other fee field, an absent one
\* included, with escrow_fee_mismatch
VerifierAcceptsOnlyFloorFee ==
    (WithdrawalUpToFee /\ IsLockedPot(last.before.potId)) =>
       \E f \in 0..last.before.quote :
          /\ IsFloorFee(f, last.before.quote)
          /\ IF FeeField(Matched) = BigInt(f)
             THEN last.reply = "ok" /\ Row.status = "WITHDRAW_CONFIRMED"
             ELSE last.reply = "escrow_fee_mismatch" /\ Row = last.before

\* C24 as stated: for a withdrawal of amount a from a locked pot the builder
\* encodes the fee floor(a x bps / 10000), and the verifier accepts that fee only
\* and refuses any other with escrow_fee_mismatch.
C24_BuilderEncodesFloorFee ==
    /\ VerifierAcceptsOnlyFloorFee
    /\ \A i \in LockedPendingWithdrawals :
          \E f \in 0..deposits[i].quote :
             /\ IsFloorFee(f, deposits[i].quote)
             /\ BuiltFee(deposits[i]) = BigInt(f)

\* C24 amended: the verifier accepts the fee floor(a x bps / 10000) only and
\* refuses any other, or none, with escrow_fee_mismatch; the builder encodes
\* that fee when it is greater than 0 and encodes no fee field when it is 0.
C24_BuilderEncodesPositiveFloorFee ==
    /\ VerifierAcceptsOnlyFloorFee
    /\ \A i \in LockedPendingWithdrawals :
          \E f \in 0..deposits[i].quote :
             /\ IsFloorFee(f, deposits[i].quote)
             /\ BuiltFee(deposits[i]) = IF f > 0 THEN BigInt(f) ELSE Null

\* C24 witness: a withdrawal of 10 lamports from the locked pot was refused
\* with escrow_fee_mismatch for a matched instruction whose fee field is 2
\* instead of 1.
C24_Witness ==
    /\ WithdrawalUpToFee
    /\ IsLockedPot(last.before.potId)
    /\ last.before.quote = 10
    /\ BuiltFee(last.before) = BigInt(1)
    /\ FeeField(Matched) = BigInt(2)
    /\ last.reply = "escrow_fee_mismatch"

\* the last call was a confirm call of the SOL deposit or the withdrawal route,
\* on a row its prepare route left pending, with the signature of a successful
\* transaction that holds exactly the instructions the prepare route built
ConfirmsPreparedTx ==
    /\ last.route \in {"sol", "withdraw"}
    /\ last.before.status = (IF last.route = "sol" THEN "SOL_PENDING"
                             ELSE "WITHDRAW_PENDING")
    /\ last.before.quote > 0
    /\ getTransaction(last.signature).found
    /\ ~getTransaction(last.signature).err
    /\ \E v \in BOOLEAN :
          getTransaction(last.signature).instructions = PreparedInstructions(last.before, v)

\* C25: for every pot, locked or not, and every amount, the transaction the SOL
\* deposit or withdrawal prepare route returned, executed unmodified, is
\* accepted by the confirm call, which marks the row SOL_CONFIRMED or
\* WITHDRAW_CONFIRMED.
C25_PreparedTxIsAccepted ==
    ConfirmsPreparedTx =>
        /\ last.reply = "ok"
        /\ Row.status = (IF last.route = "sol" THEN "SOL_CONFIRMED"
                         ELSE "WITHDRAW_CONFIRMED")
        /\ Row.txSig = last.signature

\* the prepared transaction is accepted except for a locked pot's withdrawal
\* whose fee is 0
PreparedTxIsAcceptedWhenFeePositive ==
    (/\ ConfirmsPreparedTx
     /\ ~(/\ last.route = "withdraw"
          /\ IsLockedPot(last.before.potId)
          /\ calcFeeLamports(last.before.quote) = 0))
        => C25_PreparedTxIsAccepted

\* a locked pot's withdrawal whose fee is 0: the prepared transaction is refused
PreparedTxRefused ==
    /\ ConfirmsPreparedTx
    /\ last.route = "withdraw"
    /\ IsLockedPot(last.before.potId)
    /\ last.reply = "escrow_ix_missing"
    /\ Row = last.before

\* the rows whose status says that a transaction settled them
SettledRows ==
    {i \in 1..Len(deposits) :
        deposits[i].status \in {"SOL_CONFIRMED", "USDC_CONFIRMED", "WITHDRAW_CONFIRMED"}}

\* C26: a transaction signature confirms at most one intent: no two distinct
\* rows with status SOL_CONFIRMED, USDC_CONFIRMED or WITHDRAW_CONFIRMED carry the
\* same txSig, also when two pending rows of one pot expect the same amount.
C26_SignatureConfirmsOneRow ==
    \A i, j \in SettledRows :
        deposits[i].txSig = deposits[j].txSig => i = j

\* two SOL deposits of one pot and one amount are both confirmed by the one
\* transaction the cluster recorded
OneTxConfirmsTwoRows ==
    /\ Len(chain) = 1
    /\ Len(deposits) = 2
    /\ \A i \in 1..2 : deposits[i].status = "SOL_CONFIRMED" /\ deposits[i].txSig = 1
    /\ deposits[1].potId = deposits[2].potId

(***************************************************************************)
(* Backend API: the ledger of a pot.  The database holds one confirmed SOL *)
(* deposit of MIN_DEPOSIT_USD, made when SOL cost half of today's price,   *)
(* so that the vault holds twice today's quote for that amount; the user   *)
(* then prepares up to MaxRecords withdrawals, the wallet sends up to      *)
(* MaxTxs transactions and the confirm route is called.                    *)
(***************************************************************************)
LedgerInit ==
    /\ ClampIdle
    /\ CodecIdle
    /\ GovIdle
    /\ SignerIdle
    /\ RaceIdle
    /\ observed = FALSE
    /\ last = NoCall
    /\ pots = {Pot(PotIds[n], "user", PotLocks[n]) : n \in 1..Len(PotIds)}
    /\ luloOps = <<>>
    /\ \E n \in 1..Len(PotIds), solPriceUsd \in SolPriceInputs :
           LET lamports == QuoteLamports(MIN_DEPOSIT_USD, solPriceUsd \div 2)
           IN  /\ deposits = <<Deposit("user", PotIds[n], Whole(MIN_DEPOSIT_USD), lamports,
                                       "SOL_CONFIRMED", 0, 1)>>
               /\ chain = <<Landed(FALSE, buildEscrowTx("user", PotIds[n], lamports,
                                                        "deposit", FeeUndefined, FALSE))>>

PrepareLedgerWithdrawal ==
    PrepareWithdrawalUpTo(1 + MaxRecords)

LandLedgerTx ==
    LandUpTo(1 + MaxTxs)

NextLedger ==
    \/ PrepareLedgerWithdrawal
    \/ LandLedgerTx
    \/ ConfirmWithdrawal

SpecLedger ==
    LedgerInit /\ [][NextLedger]_vars

\* C27: the ledger balance of a pot, the sum of netUsdc over its SOL_CONFIRMED
\* and WITHDRAW_CONFIRMED rows, is never negative, also when several
\* withdrawals are prepared before any of them is confirmed.
C27_BalanceNeverNegative ==
    \A n \in 1..Len(PotIds) :
        ~RLt(Balance(PotIds[n], "user"), Whole(0))

RECURSIVE SumLamports(_)
SumLamports(rows) ==
    IF rows = <<>> THEN 0 ELSE rows[1].amountLamports + SumLamports(Tail(rows))

\* two withdrawals prepared against the same balance were confirmed by two
\* transactions of their own, and the vault held the lamports of both: the
\* ledger balance of the pot is below 0
OverdrawnByTwoWithdrawals ==
    /\ Len(deposits) = 3
    /\ deposits[2].status = "WITHDRAW_CONFIRMED"
    /\ deposits[3].status = "WITHDRAW_CONFIRMED"
    /\ deposits[2].potId = deposits[1].potId
    /\ deposits[3].potId = deposits[1].potId
    /\ deposits[2].txSig # deposits[3].txSig
    /\ SumLamports(SubSeq(deposits, 2, 3)) <= deposits[1].amountLamports
    /\ RLt(Balance(deposits[1].potId, "user"), Whole(0))

(***************************************************************************)
(* Backend API: concurrent withdrawal confirm calls.  The handler of       *)
(* POST /v1/withdrawals/sol/confirm is split at its awaits; MaxRequests    *)
(* requests for the same withdrawal and signature are in flight and the    *)
(* event loop runs one step of one of them at a time.  The database holds  *)
(* a confirmed deposit and the pending withdrawal, the cluster the         *)
(* deposit's transaction and the withdrawal's.                             *)
(***************************************************************************)
\* a handler: its request, where it stands, what it has read, what it replied
Handler(id, signature, pc, wd, reply) ==
    [id |-> id, signature |-> signature, pc |-> pc, wd |-> wd, reply |-> reply]

\* Math.abs(wd.netUsdc) * (LOCKED_WITHDRAW_FEE_BPS / 10_000)
FeeUsd(wd) ==
    RMul(Fin(Abs(wd.netUsdc.n), wd.netUsdc.d),
         RDiv(Whole(LOCKED_WITHDRAW_FEE_BPS), Whole(10000)))

RaceInit ==
    /\ ClampIdle
    /\ CodecIdle
    /\ GovIdle
    /\ SignerIdle
    /\ observed = FALSE
    /\ last = NoCall
    /\ pots = {Pot(PotIds[n], "user", PotLocks[n]) : n \in 1..Len(PotIds)}
    /\ luloOps = <<>>
    /\ \E n \in 1..Len(PotIds), usd \in UsdInputs, solPriceUsd \in SolPriceInputs,
          signature \in Signatures :
           LET lamports == QuoteLamports(MIN_DEPOSIT_USD, solPriceUsd)
               wd == Deposit("user", PotIds[n], Whole(-usd), QuoteLamports(usd, solPriceUsd),
                             "WITHDRAW_PENDING", QuoteLamports(usd, solPriceUsd), NoSig)
           IN  /\ deposits = <<Deposit("user", PotIds[n], Whole(MIN_DEPOSIT_USD), lamports,
                                       "SOL_CONFIRMED", 0, 1), wd>>
               /\ chain = <<Landed(FALSE, buildEscrowTx("user", PotIds[n], lamports,
                                                        "deposit", FeeUndefined, FALSE)),
                            Landed(FALSE, <<IdealIx(wd, PotLocks[n])>>)>>
               /\ confirming = [k \in 1..MaxRequests |->
                                   Handler(2, signature, "findWithdrawal", NoDeposit, "")]

\* the handler k moves to pc, or replies
Goto(k, pc) ==
    confirming' = [confirming EXCEPT ![k].pc = pc]

Send(k, reply) ==
    confirming' = [confirming EXCEPT ![k].pc = "done", ![k].reply = reply]

\* await prisma.deposit.findFirst (2961) and the checks of the row up to the quote
FindWithdrawal(k) ==
    /\ confirming[k].pc = "findWithdrawal"
    /\ LET wd == deposits[confirming[k].id]
           answer == WithdrawalConfirmReply(wd, confirming[k].signature)
       IN  IF ~answer.fetched /\ answer.reply # "pot_not_found"
           THEN confirming' = [confirming EXCEPT ![k].pc = "done", ![k].wd = wd,
                                                 ![k].reply = answer.reply]
           ELSE confirming' = [confirming EXCEPT ![k].pc = "findPot", ![k].wd = wd]
    /\ UNCHANGED <<govVars, signerVars, clampVars, codecVars, apiVars>>

\* await prisma.pot.findFirst (2988)
FindWithdrawalPot(k) ==
    /\ confirming[k].pc = "findPot"
    /\ IF FindPot(confirming[k].wd.potId, "user") = {}
       THEN Send(k, "pot_not_found")
       ELSE Goto(k, "getTransaction")
    /\ UNCHANGED <<govVars, signerVars, clampVars, codecVars, apiVars>>

\* await connection.getTransaction (2999) and the checks of the transaction
GetWithdrawalTransaction(k) ==
    /\ confirming[k].pc = "getTransaction"
    /\ LET answer == WithdrawalConfirmReply(confirming[k].wd, confirming[k].signature)
       IN  IF answer.reply # "ok"
           THEN Send(k, answer.reply)
           ELSE Goto(k, "update")
    /\ UNCHANGED <<govVars, signerVars, clampVars, codecVars, apiVars>>

\* await prisma.deposit.update (3046)
UpdateWithdrawal(k) ==
    /\ confirming[k].pc = "update"
    /\ deposits' = UpdateDeposit(confirming[k].id, "WITHDRAW_CONFIRMED",
                                 confirming[k].signature)
    /\ IF /\ IsLockedPot(confirming[k].wd.potId)
          /\ adminWallet # ""
          /\ adminPotId # ""
          /\ RLt(Whole(0), FeeUsd(confirming[k].wd))
       THEN Goto(k, "upsertUser")
       ELSE Send(k, "ok")
    /\ UNCHANGED <<govVars, signerVars, clampVars, codecVars, pots, luloOps, chain, last,
                   observed>>

\* await prisma.user.upsert (3055); the admin user's id stands for the wallet
UpsertAdminUser(k) ==
    /\ confirming[k].pc = "upsertUser"
    /\ Goto(k, "upsertPot")
    /\ UNCHANGED <<govVars, signerVars, clampVars, codecVars, apiVars>>

\* await prisma.pot.upsert (3060)
UpsertAdminPot(k) ==
    /\ confirming[k].pc = "upsertPot"
    /\ pots' = IF \E p \in pots : p.id = adminPotId THEN pots
               ELSE pots \cup {Pot(adminPotId, adminWallet, FALSE)}
    /\ Goto(k, "findFee")
    /\ UNCHANGED <<govVars, signerVars, clampVars, codecVars, deposits, luloOps, chain, last,
                   observed>>

\* await prisma.deposit.findFirst for the fee row (3071)
FindExistingFee(k) ==
    /\ confirming[k].pc = "findFee"
    /\ LET existingFee == \E i \in 1..Len(deposits) :
                              /\ deposits[i].potId = adminPotId
                              /\ deposits[i].userId = adminWallet
                              /\ deposits[i].txSig = confirming[k].signature
                              /\ deposits[i].status = "FEE_CONFIRMED"
       IN  IF existingFee THEN Send(k, "ok") ELSE Goto(k, "createFee")
    /\ UNCHANGED <<govVars, signerVars, clampVars, codecVars, apiVars>>

\* await prisma.deposit.create of the fee row (3079) and the reply
CreateFee(k) ==
    /\ confirming[k].pc = "createFee"
    /\ deposits' = Append(deposits,
                          Deposit(adminWallet, adminPotId, FeeUsd(confirming[k].wd),
                                  calcFeeLamports(confirming[k].wd.quote),
                                  "FEE_CONFIRMED", 0, confirming[k].signature))
    /\ Send(k, "ok")
    /\ UNCHANGED <<govVars, signerVars, clampVars, codecVars, pots, luloOps, chain, last,
                   observed>>

NextRace ==
    \E k \in 1..MaxRequests :
        \/ FindWithdrawal(k)
        \/ FindWithdrawalPot(k)
        \/ GetWithdrawalTransaction(k)
        \/ UpdateWithdrawal(k)
        \/ UpsertAdminUser(k)
        \/ UpsertAdminPot(k)
        \/ FindExistingFee(k)
        \/ CreateFee(k)

SpecRace ==
    RaceInit /\ [][NextRace]_vars

\* the FEE_CONFIRMED rows of the treasury pot
FeeRows ==
    {i \in 1..Len(deposits) :
        deposits[i].status = "FEE_CONFIRMED" /\ deposits[i].potId = adminPotId}

AllReplied ==
    \A k \in 1..MaxRequests : confirming[k].pc = "done"

\* when every request has replied the withdrawal is as one request leaves it:
\* WITHDRAW_CONFIRMED with the signature when the call was accepted, untouched
\* when it was refused, and all requests got the same kind of reply
WithdrawalAsAfterOneRequest ==
    AllReplied =>
        \/ /\ \A k \in 1..MaxRequests : confirming[k].reply = "ok"
           /\ deposits[2].status = "WITHDRAW_CONFIRMED"
           /\ deposits[2].txSig = confirming[1].signature
           /\ deposits[2].quote = 0
        \/ /\ \A k \in 1..MaxRequests : confirming[k].reply # "ok"
           /\ deposits[2].status = "WITHDRAW_PENDING"
           /\ deposits[2].txSig = NoSig

\* C28: two concurrent confirm calls for the same locked-pot withdrawal and
\* signature, interleaved at every await, create at most one FEE_CONFIRMED row
\* of the treasury pot and leave the withdrawal WITHDRAW_CONFIRMED as one call
\* does.
C28_ConcurrentConfirmBooksOneFee ==
    /\ Cardinality(FeeRows) <= 1
    /\ WithdrawalAsAfterOneRequest

\* both requests found no fee row and each created one
TwoFeeRows ==
    /\ AllReplied
    /\ Cardinality(FeeRows) = 2
    /\ \A i \in FeeRows : deposits[i].txSig = 2
    /\ deposits[2].status = "WITHDRAW_CONFIRMED"

====
